---------------------------- MODULE Spec2Model ----------------------------
(***************************************************************************)
(* DataProcessorProstate (flatiron_cleaner/prostate.py): the routines that *)
(* reduce a source table to one feature row per patient relative to the    *)
(* caller's index-date table.                                              *)
(*                                                                         *)
(* Conventions of the model                                                *)
(*   - a DataFrame is a sequence of records (row order is kept);           *)
(*   - a nullable number or date is a set with at most one element: NA is  *)
(*     the empty set, Val(v) is {v}; dates are day numbers;                *)
(*   - a nullable string column uses the string NaN for a missing value;   *)
(*   - every call is one action: validation, read, reduction, the store    *)
(*     into self.<x>_df and the return value happen in one step.           *)
(***************************************************************************)
EXTENDS Integers, Sequences, FiniteSets, TLC

VARIABLES
    index_date_df,      \* the caller's index-date DataFrame (shared by calls)
    ecog_csv,           \* rows of ECOG.csv
    biomarkers_csv,     \* rows of Enhanced_MetPC_Biomarkers.csv
    demographics_csv,   \* rows of Demographics.csv
    enhanced_csv,       \* rows of Enhanced_MetProstate.csv
    call,               \* the last call: routine and arguments
    fileRead,           \* pd.read_csv(file_path) was executed by the last call
    ret,                \* what the last call did: raised, returned None, returned a table
    locals,             \* the local frames the last call built
    ecog_df,            \* self.ecog_df
    biomarkers_df,      \* self.biomarkers_df
    demographics_df,    \* self.demographics_df
    enhanced_df         \* self.enhanced_df

vars == <<index_date_df, ecog_csv, biomarkers_csv, demographics_csv, enhanced_csv,
          call, fileRead, ret, locals,
          ecog_df, biomarkers_df, demographics_df, enhanced_df>>

files == <<ecog_csv, biomarkers_csv, demographics_csv, enhanced_csv>>

(***************************************************************************)
(* Values                                                                  *)
(***************************************************************************)
NA == {}
Val(v) == {v}
Get(x) == CHOOSE v \in x : TRUE
NaN == "NaN"
NoFrame == [kind |-> "None", rows |-> <<>>]
\* An attribute __init__ does not create (self.ecog_df): reading it raises
\* AttributeError until a call has assigned it.
Unset == [kind |-> "unset", rows |-> <<>>]
Table(rows) == [kind |-> "table", rows |-> rows]
Raised(msg) == [kind |-> "raised", msg |-> msg, rows |-> <<>>]
ReturnedNone(msg) == [kind |-> "None", msg |-> msg, rows |-> <<>>]

\* An argument that should be an int: an int, None, or a float val + 0.5.
IntArg(n) == [kind |-> "int", val |-> n]
NoneArg == [kind |-> "none", val |-> 0]
FloatArg(n) == [kind |-> "float", val |-> n]

\* Python's order of the patient identifiers used here (string comparison).
PatientRank(p) == CASE p = "p1" -> 1 [] p = "p2" -> 2 [] OTHER -> 3

(***************************************************************************)
(* Frame helpers                                                           *)
(***************************************************************************)
RECURSIVE Flatten(_)
Flatten(ss) == IF ss = <<>> THEN <<>> ELSE Head(ss) \o Flatten(Tail(ss))

Column(df, c) == [i \in DOMAIN df |-> df[i][c]]
ValuesOf(df, c) == {df[i][c] : i \in DOMAIN df}

\* Lexicographic order on equal-length tuples of integers.
RECURSIVE LexLess(_, _)
LexLess(a, b) ==
    IF a = <<>> THEN FALSE
    ELSE IF Head(a) # Head(b) THEN Head(a) < Head(b)
    ELSE LexLess(Tail(a), Tail(b))

\* DataFrame.sort_values on several keys: a stable sort of rows by their key tuple.
RECURSIVE StableSort(_)
StableSort(s) ==
    IF Len(s) <= 1 THEN s
    ELSE LET rest == StableSort(SubSeq(s, 1, Len(s) - 1))
             x == s[Len(s)]
             k == Cardinality({i \in DOMAIN rest : ~LexLess(x.key, rest[i].key)})
         IN SubSeq(rest, 1, k) \o <<x>> \o SubSeq(rest, k + 1, Len(rest))

\* The group keys of groupby('PatientID'), in sorted order.
RECURSIVE SortedPatients(_)
SortedPatients(S) ==
    IF S = {} THEN <<>>
    ELSE LET p == CHOOSE q \in S : \A r \in S : PatientRank(q) <= PatientRank(r)
         IN <<p>> \o SortedPatients(S \ {p})

GroupOf(df, p) == SelectSeq(df, LAMBDA r : r.PatientID = p)

\* Fault variant of LeftMerge: how = 'inner', rows without a match are dropped.
InnerMerge(left, right, fill) ==
    Flatten([i \in DOMAIN left |->
        LET m == GroupOf(right, left[i].PatientID)
        IN [j \in DOMAIN m |-> left[i] @@ m[j]]])

\* pd.merge(left, right, on = 'PatientID', how = 'left'); fill holds the right
\* frame's columns as missing values.
LeftMerge(left, right, fill) ==
    Flatten([i \in DOMAIN left |->
        LET m == GroupOf(right, left[i].PatientID)
        IN IF m = <<>> THEN <<left[i] @@ fill>>
           ELSE [j \in DOMAIN m |-> left[i] @@ m[j]]])

(***************************************************************************)
(* Input validation shared by the routines                                 *)
(***************************************************************************)
HasDuplicates(idf) ==
    \E i, j \in DOMAIN idf.rows : i < j /\ idf.rows[i].PatientID = idf.rows[j].PatientID

\* The checks on index_date_df and index_date_column; "ok" or the ValueError.
ValidateIndex(idf, col) ==
    IF "PatientID" \notin idf.columns
        THEN "index_date_df must contain a 'PatientID' column"
    ELSE IF col = "" \/ col \notin idf.columns
        THEN "index_date_column not found in index_date_df"
    ELSE IF HasDuplicates(idf)
        THEN "index_date_df contains duplicate PatientID values, which is not allowed"
    ELSE "ok"

\* isinstance(x, int) and x >= 0
NonNegInt(a) == a.kind = "int" /\ a.val >= 0

\* index_date_df[index_date_column] = pd.to_datetime(...): the caller's frame
\* gets its index-date column replaced by a datetime column.
ToDatetime(idf) == [idf EXCEPT !.dtype = "datetime64"]

IndexPatients(idf) == {idf.rows[i].PatientID : i \in DOMAIN idf.rows}

\* Fault variant of MergeIndex: the file is not filtered by the registry.
MergeIndexUnfiltered(csv, idf) ==
    LeftMerge([i \in DOMAIN csv |-> csv[i] @@ [src |-> i]],
              [i \in DOMAIN idf.rows |->
                  [PatientID |-> idf.rows[i].PatientID, IndexDate |-> idf.rows[i].IndexDate]],
              [IndexDate |-> NA])

\* df[df.PatientID.isin(index_date_df.PatientID)] merged (how = 'left') with
\* index_date_df[['PatientID', index_date_column]]. src is the row's place in
\* the file.
MergeIndex(csv, idf) ==
    LeftMerge(SelectSeq([i \in DOMAIN csv |-> csv[i] @@ [src |-> i]],
                        LAMBDA r : r.PatientID \in IndexPatients(idf)),
              [i \in DOMAIN idf.rows |->
                  [PatientID |-> idf.rows[i].PatientID, IndexDate |-> idf.rows[i].IndexDate]],
              [IndexDate |-> NA])

\* (a - b).dt.days: missing when either date is missing.
DaysBetween(a, b) == IF a = NA \/ b = NA THEN NA ELSE Val(Get(a) - Get(b))

\* Fault variant of AtMost: the upper bound is exclusive.
AtMostStrict(off, bound) == off # NA /\ Get(off) < bound

\* Comparisons of a nullable offset with a bound are False on a missing offset.
AtMost(off, bound) == off # NA /\ Get(off) <= bound
\* off >= -bound, where bound is an int or a float val + 0.5.
AtLeastMinus(off, a) == off # NA /\ Get(off) >= -a.val


(***************************************************************************)
(* process_ecog                                                            *)
(***************************************************************************)
NoLocals == [df |-> <<>>, df_filtered |-> <<>>, df_closest_window |-> <<>>,
             df_progression_window |-> <<>>, ecog_index_df |-> <<>>]

\* df with index_to_ecog = (EcogDate - index date).dt.days
EcogMerged(csv, idf) ==
    LET m == MergeIndex(csv, idf)
    IN [i \in DOMAIN m |-> m[i] @@ [index_to_ecog |-> DaysBetween(m[i].EcogDate, m[i].IndexDate)]]

\* df[(df['index_to_ecog'] <= days_after) & (df['index_to_ecog'] >= -days_before)]
EcogWindow(df, before, after) ==
    SelectSeq(df, LAMBDA r : AtMost(r.index_to_ecog, after.val)
                             /\ AtLeastMinus(r.index_to_ecog, before))

Abs(n) == IF n < 0 THEN -n ELSE n

\* Fault variant of ClosestKey: EcogValue ascending, the lowest score wins a tie.
ClosestKeyAscending(r) ==
    <<PatientRank(r.PatientID), Abs(Get(r.index_to_ecog)),
      IF r.EcogValue = NA THEN 1 ELSE 0,
      IF r.EcogValue = NA THEN 0 ELSE Get(r.EcogValue)>>

\* Fault variant of ClosestKey: the signed offset instead of its absolute value.
ClosestKeySigned(r) ==
    <<PatientRank(r.PatientID), Get(r.index_to_ecog),
      IF r.EcogValue = NA THEN 1 ELSE 0,
      IF r.EcogValue = NA THEN 0 ELSE -Get(r.EcogValue)>>

\* Fault variant of ClosestKey: EcogValue is not a sort key, the first row of
\* the file wins a tie.
ClosestKeyNoValue(r) ==
    <<PatientRank(r.PatientID), Abs(Get(r.index_to_ecog)), 0, 0>>

\* The sort key of sort_values(by = ['PatientID', 'abs_days_to_index', 'EcogValue'],
\* ascending = [True, True, False]); missing values sort last.
ClosestKey(r) ==
    <<PatientRank(r.PatientID), Abs(Get(r.index_to_ecog)),
      IF r.EcogValue = NA THEN 1 ELSE 0,
      IF r.EcogValue = NA THEN 0 ELSE -Get(r.EcogValue)>>

\* Fault variant of First: the entry of the first row, missing or not.
FirstRow(vals) == vals[1]

\* GroupBy.first(): the first non-null entry of the column, missing if there is none.
First(vals) ==
    IF \E i \in DOMAIN vals : vals[i] # NA
        THEN vals[CHOOSE i \in DOMAIN vals :
                    vals[i] # NA /\ \A j \in 1..(i - 1) : vals[j] = NA]
        ELSE NA

\* Fault variant of EcogCategory: the value is kept as it is, without the cast.
EcogCategoryUncast(v) == v

\* astype(pd.CategoricalDtype(categories = [0, 1, 2, 3, 4], ordered = True))
EcogCategory(v) == IF v # NA /\ Get(v) \in 0..4 THEN v ELSE NA

\* ecog_index_df: one row per patient of the window, the closest EcogValue.
EcogIndexDf(window) ==
    LET sorted == StableSort([i \in DOMAIN window |-> window[i] @@ [key |-> ClosestKey(window[i])]])
        keys == SortedPatients(ValuesOf(sorted, "PatientID"))
    IN [g \in DOMAIN keys |->
          [PatientID |-> keys[g],
           ecog_index |-> EcogCategory(First(Column(GroupOf(sorted, keys[g]), "EcogValue")))]]

\* The sort key of sort_values(['PatientID', 'EcogDate'])
ProgressionKey(r) == <<PatientRank(r.PatientID), Get(r.EcogDate)>>

ProgressionSorted(window) ==
    StableSort([i \in DOMAIN window |-> window[i] @@ [key |-> ProgressionKey(window[i])]])

\* The aggregation lambda on one patient's EcogValue series x:
\* (x.iloc[-1] >= 2) and any(x.iloc[:-1].isin([0, 1])).
\* With x.iloc[-1] missing, pd.NA >= 2 is pd.NA and `pd.NA and ...` raises TypeError.
NewlyGte2Raises(x) == x[Len(x)] = NA
NewlyGte2(x) ==
    /\ Get(x[Len(x)]) >= 2
    /\ \E i \in 1..(Len(x) - 1) : x[i] \in {Val(0), Val(1)}

\* astype('Int64') of the boolean flag
BoolToInt64(b) == IF b THEN Val(1) ELSE Val(0)

EcogNewlyGte2Df(window) ==
    LET sorted == ProgressionSorted(window)
        keys == SortedPatients(ValuesOf(sorted, "PatientID"))
    IN [g \in DOMAIN keys |->
          [PatientID |-> keys[g],
           ecog_newly_gte2 |-> BoolToInt64(NewlyGte2(Column(GroupOf(sorted, keys[g]), "EcogValue")))]]

EcogAggRaises(window) ==
    LET sorted == ProgressionSorted(window)
    IN \E p \in ValuesOf(sorted, "PatientID") :
          NewlyGte2Raises(Column(GroupOf(sorted, p), "EcogValue"))

\* Fault variant of EcogFinal: a patient without a flag gets 0 instead of missing.
EcogFinalZeroFill(idf, index_df, newly_df) ==
    LeftMerge(LeftMerge([i \in DOMAIN idf.rows |-> [PatientID |-> idf.rows[i].PatientID]],
                        index_df, [ecog_index |-> NA]),
              newly_df, [ecog_newly_gte2 |-> Val(0)])

\* final_df: index_date_df[['PatientID']] left-merged with both reductions.
EcogFinal(idf, index_df, newly_df) ==
    LeftMerge(LeftMerge([i \in DOMAIN idf.rows |-> [PatientID |-> idf.rows[i].PatientID]],
                        index_df, [ecog_index |-> NA]),
              newly_df, [ecog_newly_gte2 |-> NA])

\* The whole call: [ret, read, locals, stores], stores saying whether
\* self.ecog_df and the caller's index_date_df were assigned.
EcogCall(csv, idf, col, before, after, further) ==
    IF ValidateIndex(idf, col) # "ok" THEN
        [ret |-> Raised(ValidateIndex(idf, col)), read |-> FALSE, locals |-> NoLocals, stores |-> FALSE]
    ELSE IF ~NonNegInt(before) THEN
        [ret |-> Raised("days_before must be a non-negative integer"),
         read |-> FALSE, locals |-> NoLocals, stores |-> FALSE]
    ELSE IF ~NonNegInt(after) THEN
        [ret |-> Raised("days_after must be a non-negative integer"),
         read |-> FALSE, locals |-> NoLocals, stores |-> FALSE]
    ELSE
        LET df == EcogMerged(csv, idf)
            closest == EcogWindow(df, before, after)
            index_df == EcogIndexDf(closest)
            progression == IF further.kind = "none" THEN <<>> ELSE EcogWindow(df, further, after)
            loc == [NoLocals EXCEPT !.df = df, !.df_closest_window = closest,
                                    !.ecog_index_df = index_df,
                                    !.df_progression_window = progression]
        IN IF further.kind = "none" THEN
               \* -days_before_further on None: TypeError, caught by the except clause
               [ret |-> ReturnedNone("TypeError"), read |-> TRUE, locals |-> loc, stores |-> FALSE]
           ELSE IF EcogAggRaises(progression) THEN
               [ret |-> ReturnedNone("TypeError"), read |-> TRUE, locals |-> loc, stores |-> FALSE]
           ELSE
               [ret |-> Table(EcogFinal(idf, index_df, EcogNewlyGte2Df(progression))),
                read |-> TRUE, locals |-> loc, stores |-> TRUE]

\* patient_ids: None, or a list of identifiers.
NoIds == [kind |-> "none", ids |-> {}]
IdList(S) == [kind |-> "list", ids |-> S]

CallRecord(routine, col, before, after, further) ==
    [routine |-> routine, index_date_column |-> col, days_before |-> before,
     days_after |-> after, days_before_further |-> further,
     patient_ids |-> NoIds, with_index_date_df |-> TRUE]

NoCall == [CallRecord("none", "", NoneArg, NoneArg, NoneArg) EXCEPT !.with_index_date_df = FALSE]

\* Fault variant of process_ecog: self.ecog_df is assigned whatever the outcome.
process_ecog_always_stores(col, before, after, further) ==
    \E r \in {EcogCall(ecog_csv, index_date_df, col, before, after, further)} :
       /\ call' = CallRecord("process_ecog", col, before, after, further)
       /\ ret' = r.ret
       /\ fileRead' = r.read
       /\ locals' = r.locals
       /\ ecog_df' = r.ret
       /\ index_date_df' = IF r.read THEN ToDatetime(index_date_df) ELSE index_date_df
       /\ UNCHANGED <<files, biomarkers_df, demographics_df, enhanced_df>>

process_ecog(col, before, after, further) ==
    \E r \in {EcogCall(ecog_csv, index_date_df, col, before, after, further)} :
       /\ call' = CallRecord("process_ecog", col, before, after, further)
       /\ ret' = r.ret
       /\ fileRead' = r.read
       /\ locals' = r.locals
       /\ ecog_df' = IF r.stores THEN r.ret ELSE ecog_df
       \* line 794 runs right after the read, before anything that can fail
       /\ index_date_df' = IF r.read THEN ToDatetime(index_date_df) ELSE index_date_df
       /\ UNCHANGED <<files, biomarkers_df, demographics_df, enhanced_df>>

(***************************************************************************)
(* process_biomarkers                                                      *)
(***************************************************************************)
positive_values == {"BRCA1 mutation identified", "BRCA2 mutation identified",
                    "Both BRCA1 and BRCA2 mutations identified", "BRCA mutation NOS"}

negative_values == {"No BRCA mutation", "Genetic Variant Favor Polymorphism"}

\* Fault variant of ImputeResultDate: a missing ResultDate stays missing.
ImputeResultDateSkipped(csv) == csv

\* np.where(df['ResultDate'].isna(), df['SpecimenReceivedDate'], df['ResultDate'])
ImputeResultDate(csv) ==
    [i \in DOMAIN csv |->
        [csv[i] EXCEPT !.ResultDate =
            IF csv[i].ResultDate = NA THEN csv[i].SpecimenReceivedDate ELSE csv[i].ResultDate]]

\* df with index_to_result = (ResultDate - index date).dt.days
BiomarkersMerged(csv, idf) ==
    LET m == MergeIndex(ImputeResultDate(csv), idf)
    IN [i \in DOMAIN m |-> m[i] @@ [index_to_result |-> DaysBetween(m[i].ResultDate, m[i].IndexDate)]]

\* df_filtered: only the upper bound applies when days_before is None.
BiomarkersWindow(df, before, after) ==
    IF before.kind = "none"
        THEN SelectSeq(df, LAMBDA r : AtMost(r.index_to_result, after.val))
        ELSE SelectSeq(df, LAMBDA r : AtMost(r.index_to_result, after.val)
                                      /\ AtLeastMinus(r.index_to_result, before))

\* Fault variant of BrcaStatus: the negative set is looked up first.
BrcaStatusNegativeFirst(x) ==
    IF \E i \in DOMAIN x : x[i] \in negative_values THEN "negative"
    ELSE IF \E i \in DOMAIN x : x[i] \in positive_values THEN "positive"
    ELSE "unknown"

\* The aggregation lambda on one patient's BiomarkerStatus series x.
BrcaStatus(x) ==
    IF \E i \in DOMAIN x : x[i] \in positive_values THEN "positive"
    ELSE IF \E i \in DOMAIN x : x[i] \in negative_values THEN "negative"
    ELSE "unknown"

\* brca_df: one row per patient with an in-window BRCA row.
BrcaDf(df_filtered) ==
    LET brca == SelectSeq(df_filtered, LAMBDA r : r.BiomarkerName = "BRCA")
        keys == SortedPatients(ValuesOf(brca, "PatientID"))
    IN [g \in DOMAIN keys |->
          [PatientID |-> keys[g],
           BRCA_status |-> BrcaStatus(Column(GroupOf(brca, keys[g]), "BiomarkerStatus"))]]

\* final_df: index_date_df[['PatientID']] left-merged with brca_df.
BiomarkersFinal(idf, brca_df) ==
    LeftMerge([i \in DOMAIN idf.rows |-> [PatientID |-> idf.rows[i].PatientID]],
              brca_df, [BRCA_status |-> NaN])

BiomarkersCall(csv, idf, col, before, after) ==
    IF ValidateIndex(idf, col) # "ok" THEN
        [ret |-> Raised(ValidateIndex(idf, col)), read |-> FALSE, locals |-> NoLocals, stores |-> FALSE]
    ELSE IF before.kind # "none" /\ ~NonNegInt(before) THEN
        [ret |-> Raised("days_before must be a non-negative integer or None"),
         read |-> FALSE, locals |-> NoLocals, stores |-> FALSE]
    ELSE IF ~NonNegInt(after) THEN
        [ret |-> Raised("days_after must be a non-negative integer"),
         read |-> FALSE, locals |-> NoLocals, stores |-> FALSE]
    ELSE
        LET df == BiomarkersMerged(csv, idf)
            df_filtered == BiomarkersWindow(df, before, after)
        IN [ret |-> Table(BiomarkersFinal(idf, BrcaDf(df_filtered))),
            read |-> TRUE,
            locals |-> [NoLocals EXCEPT !.df = df, !.df_filtered = df_filtered],
            stores |-> TRUE]

process_biomarkers(col, before, after) ==
    \E r \in {BiomarkersCall(biomarkers_csv, index_date_df, col, before, after)} :
       /\ call' = CallRecord("process_biomarkers", col, before, after, NoneArg)
       /\ ret' = r.ret
       /\ fileRead' = r.read
       /\ locals' = r.locals
       /\ biomarkers_df' = IF r.stores THEN r.ret ELSE biomarkers_df
       /\ index_date_df' = IF r.read THEN ToDatetime(index_date_df) ELSE index_date_df
       /\ UNCHANGED <<files, ecog_df, demographics_df, enhanced_df>>

(***************************************************************************)
(* process_demographics.  Modelled columns: PatientID, State and region;   *)
(* BirthYear/age, Race, Ethnicity and Gender do not change which rows are  *)
(* returned and are left out.                                              *)
(***************************************************************************)
Northeast == {"ME", "NH", "VT", "MA", "CT", "RI", "NY", "NJ", "PA"}
Midwest == {"IL", "IN", "MI", "OH", "WI", "IA", "KS", "MN", "MO", "NE", "ND", "SD"}
South == {"DE", "FL", "GA", "MD", "NC", "SC", "VA", "DC", "WV", "AL", "KY", "MS", "TN",
          "AR", "LA", "OK", "TX"}
West == {"AZ", "CO", "ID", "MT", "NV", "NM", "UT", "WY", "AK", "CA", "HI", "OR", "WA"}

\* STATE_REGIONS_MAPPING; NaN for a state that is not a key.
STATE_REGIONS_MAPPING(state) ==
    CASE state \in Northeast -> "northeast"
      [] state \in Midwest -> "midwest"
      [] state \in South -> "south"
      [] state \in West -> "west"
      [] state = "PR" -> "unknown"
      [] OTHER -> NaN

\* The categories of df['State'].astype('category'): the states of the whole file.
StateCategories(csv) == ValuesOf(csv, "State") \ {NaN}

\* Series.map on a categorical column returns a categorical column when the
\* categories map to distinct, non-missing values; fillna('unknown') on it
\* raises TypeError unless 'unknown' is one of its categories.
RegionRaises(csv) ==
    LET cats == StateCategories(csv)
    IN /\ \A c \in cats : STATE_REGIONS_MAPPING(c) # NaN
       /\ \A c, d \in cats : c # d => STATE_REGIONS_MAPPING(c) # STATE_REGIONS_MAPPING(d)
       /\ \A c \in cats : STATE_REGIONS_MAPPING(c) # "unknown"

\* df['State'].map(STATE_REGIONS_MAPPING).fillna('unknown')
Region(state) ==
    IF state = NaN \/ STATE_REGIONS_MAPPING(state) = NaN THEN "unknown"
    ELSE STATE_REGIONS_MAPPING(state)

DemographicsFinal(df) ==
    [i \in DOMAIN df |-> [PatientID |-> df[i].PatientID, region |-> Region(df[i].State)]]

DemographicsCall(csv, idf, col) ==
    IF ValidateIndex(idf, col) # "ok" THEN
        [ret |-> Raised(ValidateIndex(idf, col)), read |-> FALSE, locals |-> NoLocals,
         stores |-> FALSE, converts |-> FALSE]
    ELSE
        LET df == MergeIndex(csv, idf)
        IN IF RegionRaises(csv) THEN
               [ret |-> ReturnedNone("TypeError"), read |-> TRUE,
                locals |-> [NoLocals EXCEPT !.df = df], stores |-> FALSE, converts |-> TRUE]
           ELSE
               [ret |-> Table(DemographicsFinal(df)), read |-> TRUE,
                locals |-> [NoLocals EXCEPT !.df = df], stores |-> TRUE, converts |-> TRUE]

process_demographics(col) ==
    \E r \in {DemographicsCall(demographics_csv, index_date_df, col)} :
       /\ call' = CallRecord("process_demographics", col, NoneArg, NoneArg, NoneArg)
       /\ ret' = r.ret
       /\ fileRead' = r.read
       /\ locals' = r.locals
       /\ demographics_df' = IF r.stores THEN r.ret ELSE demographics_df
       /\ index_date_df' = IF r.converts THEN ToDatetime(index_date_df) ELSE index_date_df
       /\ UNCHANGED <<files, ecog_df, biomarkers_df, enhanced_df>>

(***************************************************************************)
(* process_enhanced.  Modelled columns: PatientID, DiagnosisDate,          *)
(* MetDiagnosisDate, PSADiagnosis, PSAMetDiagnosis and what is derived     *)
(* from them; PSA values are whole numbers of ng/mL.                       *)
(***************************************************************************)
DefaultIndexColumn == "MetDiagnosisDate"

\* Which of the four cases of lines 254-279 a call falls in.
EnhancedCase(col, ids, with_idf) ==
    IF col = DefaultIndexColumn /\ ids.kind # "none" THEN 1
    ELSE IF col # DefaultIndexColumn /\ with_idf THEN 2
    ELSE IF col = DefaultIndexColumn /\ ids.kind = "none" THEN 3
    ELSE 4

\* The rows the case keeps, with the index date of a custom index_date_df merged in.
EnhancedCohort(csv, idf, case, ids) ==
    LET all == [i \in DOMAIN csv |-> csv[i] @@ [src |-> i]]
    IN CASE case = 1 -> SelectSeq(all, LAMBDA r : r.PatientID \in ids.ids)
         [] case = 2 -> MergeIndex(csv, idf)
         [] OTHER -> all

\* The class-level recoding maps; NaN for a code that is not a key.
GROUP_STAGE_MAPPING(code) ==
    CASE code \in {"IV", "IVA", "IVB"} -> "IV"
      [] code \in {"III", "IIIA", "IIIB", "IIIC"} -> "III"
      [] code \in {"II", "IIA", "IIB", "IIC"} -> "II"
      [] code = "I" -> "I"
      [] code = "Unknown / Not documented" -> "unknown"
      [] OTHER -> NaN

T_STAGE_MAPPING(code) ==
    CASE code = "T4" -> "T4"
      [] code \in {"T3", "T3a", "T3b"} -> "T3"
      [] code \in {"T2", "T2a", "T2b", "T2c"} -> "T2"
      [] code \in {"T1", "T1a", "T1b", "T1c", "T0"} -> "T1"
      [] code \in {"TX", "Unknown / Not documented"} -> "unknown"
      [] OTHER -> NaN

N_STAGE_MAPPING(code) ==
    CASE code = "N1" -> "N1"
      [] code = "N0" -> "N0"
      [] code \in {"NX", "Unknown / Not documented"} -> "unknown"
      [] OTHER -> NaN

M_STAGE_MAPPING(code) ==
    CASE code \in {"M1", "M1a", "M1b", "M1c"} -> "M1"
      [] code = "M0" -> "M0"
      [] code = "Unknown / Not documented" -> "unknown"
      [] OTHER -> NaN

\* Grade groups 5..1 are written as the strings "5".."1".
GLEASON_MAPPING(code) ==
    CASE code \in {"10", "9"} -> "5"
      [] code = "8" -> "4"
      [] code \in {"4 + 3 = 7", "7 (when breakdown not available)"} -> "3"
      [] code = "3 + 4 = 7" -> "2"
      [] code = "Less than or equal to 6" -> "1"
      [] code = "Unknown / Not documented" -> "unknown"
      [] OTHER -> NaN

\* df[col + '_mod'] = df[col].map(MAPPING).astype('category'): a missing code
\* and a code that is not a key both give a missing value.
WithStages(df) ==
    [i \in DOMAIN df |->
        df[i] @@ [GroupStage_mod |-> GROUP_STAGE_MAPPING(df[i].GroupStage),
                  TStage_mod |-> T_STAGE_MAPPING(df[i].TStage),
                  NStage_mod |-> N_STAGE_MAPPING(df[i].NStage),
                  MStage_mod |-> M_STAGE_MAPPING(df[i].MStage),
                  GleasonScore_mod |-> GLEASON_MAPPING(df[i].GleasonScore)]]

\* df['CRPCDate'] <= df[index date]: False when either date is missing.
OnOrBefore(a, b) == a # NA /\ b # NA /\ Get(a) <= Get(b)

\* IsCRPC and days_diagnosis_to_crpc against MetDiagnosisDate or the merged
\* index date.
WithCrpc(df, col) ==
    [i \in DOMAIN df |->
        LET index == IF col = DefaultIndexColumn THEN df[i].MetDiagnosisDate ELSE df[i].IndexDate
            is == OnOrBefore(df[i].CRPCDate, index)
        IN df[i] @@ [IsCRPC |-> IF is THEN 1 ELSE 0,
                     days_diagnosis_to_crpc |->
                        IF is THEN DaysBetween(df[i].CRPCDate, df[i].DiagnosisDate) ELSE NA]]

\* days_diagnosis_to_met
WithDaysToMet(df) ==
    [i \in DOMAIN df |->
        df[i] @@ [days_diagnosis_to_met |-> DaysBetween(df[i].MetDiagnosisDate, df[i].DiagnosisDate)]]

\* The queries shared by df_doubling and df_velocity.
PsaEligible(r) ==
    /\ r.DiagnosisDate # NA
    /\ r.days_diagnosis_to_met # NA /\ Get(r.days_diagnosis_to_met) > 30
    /\ r.PSADiagnosis # NA
    /\ r.PSAMetDiagnosis # NA
    /\ Get(r.PSADiagnosis) > 0
    /\ Get(r.PSAMetDiagnosis) > 0

\* psa_doubling = ((days / 30) * ln 2) / (ln(PSAMetDiagnosis) - ln(PSADiagnosis)),
\* kept as the three numbers it is computed from.
DoublingDf(df) ==
    LET q == SelectSeq(df, LAMBDA r : PsaEligible(r)
                                      /\ Get(r.PSAMetDiagnosis) > Get(r.PSADiagnosis))
    IN [i \in DOMAIN q |->
          [PatientID |-> q[i].PatientID,
           psa_doubling |-> Val([days |-> Get(q[i].days_diagnosis_to_met),
                                 from |-> Get(q[i].PSADiagnosis),
                                 to |-> Get(q[i].PSAMetDiagnosis)])]]

\* psa_velocity = (PSAMetDiagnosis - PSADiagnosis) / (days / 30), kept as the
\* fraction num / den.
VelocityDf(df) ==
    LET q == SelectSeq(df, LAMBDA r : PsaEligible(r))
    IN [i \in DOMAIN q |->
          [PatientID |-> q[i].PatientID,
           psa_velocity |-> Val([num |-> 30 * (Get(q[i].PSAMetDiagnosis) - Get(q[i].PSADiagnosis)),
                                 den |-> Get(q[i].days_diagnosis_to_met)])]]

\* final_df: df left-merged with df_doubling, then with df_velocity, on PatientID.
EnhancedFinal(df) ==
    LET merged == LeftMerge(LeftMerge(df, DoublingDf(df), [psa_doubling |-> NA]),
                            VelocityDf(df), [psa_velocity |-> NA])
    IN [i \in DOMAIN merged |->
          [PatientID |-> merged[i].PatientID, src |-> merged[i].src,
           GroupStage_mod |-> merged[i].GroupStage_mod,
           TStage_mod |-> merged[i].TStage_mod,
           NStage_mod |-> merged[i].NStage_mod,
           MStage_mod |-> merged[i].MStage_mod,
           GleasonScore_mod |-> merged[i].GleasonScore_mod,
           days_diagnosis_to_met |-> merged[i].days_diagnosis_to_met,
           IsCRPC |-> merged[i].IsCRPC,
           days_diagnosis_to_crpc |-> merged[i].days_diagnosis_to_crpc,
           PSADiagnosis |-> merged[i].PSADiagnosis,
           PSAMetDiagnosis |-> merged[i].PSAMetDiagnosis,
           psa_doubling |-> merged[i].psa_doubling,
           psa_velocity |-> merged[i].psa_velocity]]

EnhancedValidate(idf, col, ids, with_idf) ==
    IF ids.kind \notin {"none", "list"} THEN "patient_ids must be a list or None"
    ELSE IF with_idf THEN ValidateIndex(idf, col)
    ELSE "ok"

EnhancedCall(csv, idf, col, ids, with_idf) ==
    IF EnhancedValidate(idf, col, ids, with_idf) # "ok" THEN
        [ret |-> Raised(EnhancedValidate(idf, col, ids, with_idf)), read |-> FALSE,
         locals |-> NoLocals, stores |-> FALSE, converts |-> FALSE]
    ELSE IF EnhancedCase(col, ids, with_idf) = 4 THEN
        \* the file is read at line 251, the case is looked at afterwards
        [ret |-> ReturnedNone("index_date_df must be provided"), read |-> TRUE,
         locals |-> NoLocals, stores |-> FALSE, converts |-> FALSE]
    ELSE
        LET case == EnhancedCase(col, ids, with_idf)
            df == WithCrpc(WithDaysToMet(WithStages(EnhancedCohort(csv, idf, case, ids))), col)
        IN [ret |-> Table(EnhancedFinal(df)), read |-> TRUE,
            locals |-> [NoLocals EXCEPT !.df = df], stores |-> TRUE, converts |-> (case = 2)]

process_enhanced(col, ids, with_idf) ==
    \E r \in {EnhancedCall(enhanced_csv, index_date_df, col, ids, with_idf)} :
       /\ call' = [CallRecord("process_enhanced", col, NoneArg, NoneArg, NoneArg)
                      EXCEPT !.patient_ids = ids, !.with_index_date_df = with_idf]
       /\ ret' = r.ret
       /\ fileRead' = r.read
       /\ locals' = r.locals
       /\ enhanced_df' = IF r.stores THEN r.ret ELSE enhanced_df
       /\ index_date_df' = IF r.converts THEN ToDatetime(index_date_df) ELSE index_date_df
       /\ UNCHANGED <<files, ecog_df, biomarkers_df, demographics_df>>

(***************************************************************************)
(* Inputs of the ECOG specification                                        *)
(***************************************************************************)
MaxEvents == 3

RECURSIVE SeqsUpTo(_, _)
SeqsUpTo(S, n) ==
    IF n = 0 THEN {<<>>}
    ELSE LET shorter == SeqsUpTo(S, n - 1)
         IN shorter \cup {Append(s, x) : s \in {t \in shorter : Len(t) = n - 1}, x \in S}

IndexColumn == "IndexDate"

IndexFrame(rows) == [columns |-> {"PatientID", IndexColumn}, rows |-> rows, dtype |-> "object"]

\* Two patients with different index dates; px is a patient of the source
\* files who is not in the registry.
Registry == IndexFrame(<<[PatientID |-> "p1", IndexDate |-> Val(0)],
                         [PatientID |-> "p2", IndexDate |-> Val(2)]>>)

EcogRow(p, d, v) == [PatientID |-> p, EcogDate |-> d, EcogValue |-> v]

EcogRows ==
    ({EcogRow("p1", Val(d), Val(v)) : d \in {-5, 0, 2}, v \in {0, 1, 2}}
        \ {EcogRow("p1", Val(2), Val(1))})
    \cup {EcogRow("p1", Val(0), NA), EcogRow("p1", Val(0), Val(5)), EcogRow("p1", NA, Val(2)),
          EcogRow("p2", Val(0), Val(1)), EcogRow("p2", Val(4), Val(2)),
          EcogRow("px", Val(0), Val(2))}

\* (days_before, days_after, days_before_further)
EcogWindows == {<<5, 2, 5>>, <<0, 0, 5>>}

NoCallYet ==
    /\ call = NoCall
    /\ fileRead = FALSE
    /\ ret = [kind |-> "nocall", rows |-> <<>>]
    /\ locals = NoLocals
    /\ ecog_df = Unset
    /\ biomarkers_df = NoFrame
    /\ demographics_df = NoFrame
    /\ enhanced_df = NoFrame

InitEcog ==
    /\ index_date_df = Registry
    /\ ecog_csv \in SeqsUpTo(EcogRows, MaxEvents)
    /\ biomarkers_csv = <<>>
    /\ demographics_csv = <<>>
    /\ enhanced_csv = <<>>
    /\ NoCallYet

NextEcog ==
    \E w \in EcogWindows :
        process_ecog(IndexColumn, IntArg(w[1]), IntArg(w[2]), IntArg(w[3]))

SpecEcog == InitEcog /\ [][NextEcog]_vars


(***************************************************************************)
(* Inputs of the biomarker specification                                   *)
(***************************************************************************)
BiomarkerRow(p, name, status, result, specimen) ==
    [PatientID |-> p, BiomarkerName |-> name, BiomarkerStatus |-> status,
     ResultDate |-> result, SpecimenReceivedDate |-> specimen]

\* Every label of both sets, an indeterminate label and a missing label on an
\* in-window date; a positive label past the window; a positive label of
\* another biomarker; a row dated by its specimen only; other patients.
BiomarkerRows ==
    {BiomarkerRow("p1", "BRCA", l, Val(0), NA) :
        l \in positive_values \cup negative_values \cup {"Unsuccessful/indeterminate test", NaN}}
    \cup {BiomarkerRow("p1", "BRCA", "BRCA1 mutation identified", Val(15), NA),
          BiomarkerRow("p1", "PDL1", "BRCA1 mutation identified", Val(0), NA),
          BiomarkerRow("p1", "BRCA", "No BRCA mutation", NA, Val(0)),
          BiomarkerRow("p2", "BRCA", "No BRCA mutation", Val(0), NA),
          BiomarkerRow("px", "BRCA", "BRCA2 mutation identified", Val(0), NA)}

\* (days_before, days_after)
BiomarkerWindows == {<<NoneArg, 14>>, <<IntArg(0), 0>>, <<IntArg(400), 15>>}

InitBiomarkers ==
    /\ index_date_df = Registry
    /\ ecog_csv = <<>>
    /\ biomarkers_csv \in SeqsUpTo(BiomarkerRows, MaxEvents)
    /\ demographics_csv = <<>>
    /\ enhanced_csv = <<>>
    /\ NoCallYet

NextBiomarkers ==
    \E w \in BiomarkerWindows :
        process_biomarkers(IndexColumn, w[1], IntArg(w[2]))

SpecBiomarkers == InitBiomarkers /\ [][NextBiomarkers]_vars

(***************************************************************************)
(* The windowed routines together: either source file holds events         *)
(***************************************************************************)
EcogCoreRows ==
    {EcogRow("p1", Val(d), Val(1)) : d \in {-5, 0, 2}}
    \cup {EcogRow("p1", Val(0), Val(2)), EcogRow("p2", Val(0), Val(1)),
          EcogRow("px", Val(0), Val(2))}

BiomarkerCoreRows ==
    {BiomarkerRow("p1", "BRCA", "No BRCA mutation", Val(d), NA) : d \in {-400, 0, 15}}
    \cup {BiomarkerRow("p1", "BRCA", "BRCA1 mutation identified", Val(0), NA),
          BiomarkerRow("p1", "PDL1", "No BRCA mutation", Val(0), NA),
          BiomarkerRow("p2", "BRCA", "No BRCA mutation", Val(0), NA),
          BiomarkerRow("px", "BRCA", "BRCA2 mutation identified", Val(0), NA)}

Init ==
    /\ index_date_df = Registry
    /\ \/ ecog_csv \in SeqsUpTo(EcogCoreRows, MaxEvents) /\ biomarkers_csv = <<>>
       \/ ecog_csv = <<>> /\ biomarkers_csv \in SeqsUpTo(BiomarkerCoreRows, MaxEvents)
    /\ demographics_csv = <<>>
    /\ enhanced_csv = <<>>
    /\ NoCallYet

Next == NextEcog \/ NextBiomarkers

Spec == Init /\ [][Next]_vars


(***************************************************************************)
(* The routines without a window: demographics and enhanced files          *)
(***************************************************************************)
DemographicsRow(p, state) == [PatientID |-> p, State |-> state]

\* p1 with two states of one region and a missing state, p2 in Puerto Rico.
DemographicsRows ==
    {DemographicsRow("p1", st) : st \in {"NY", "NJ", NaN}}
    \cup {DemographicsRow("p2", "PR"), DemographicsRow("px", "NJ")}

\* A row with stage IV codes and no CRPC date.
EnhancedRow(p, diagnosis, met, psa, psaMet) ==
    [PatientID |-> p, DiagnosisDate |-> diagnosis, MetDiagnosisDate |-> met,
     PSADiagnosis |-> psa, PSAMetDiagnosis |-> psaMet, CRPCDate |-> NA,
     GroupStage |-> "IV", TStage |-> "T4", NStage |-> "N1", MStage |-> "M1",
     GleasonScore |-> "10"]

\* Rising PSA over 60 days, falling PSA over 60 days, 30 days only, no
\* diagnosis date.
EnhancedRows ==
    {EnhancedRow("p1", Val(0), Val(60), Val(10), Val(20)),
     EnhancedRow("p1", Val(0), Val(60), Val(20), Val(10)),
     EnhancedRow("p1", Val(0), Val(30), Val(10), Val(20)),
     EnhancedRow("p1", NA, Val(60), Val(10), Val(20)),
     EnhancedRow("p2", Val(0), Val(60), Val(10), Val(20)),
     EnhancedRow("px", Val(0), Val(60), Val(10), Val(20))}

\* (index_date_column, patient_ids, index_date_df given): cases 2, 3 and 1.
EnhancedCalls ==
    {<<IndexColumn, NoIds, TRUE>>, <<DefaultIndexColumn, NoIds, FALSE>>,
     <<DefaultIndexColumn, IdList({"p1"}), FALSE>>}

InitCohort ==
    /\ index_date_df = Registry
    /\ ecog_csv = <<>>
    /\ biomarkers_csv = <<>>
    /\ \/ demographics_csv \in SeqsUpTo(DemographicsRows, MaxEvents) /\ enhanced_csv = <<>>
       \/ demographics_csv = <<>> /\ enhanced_csv \in SeqsUpTo(EnhancedRows, MaxEvents)
    /\ NoCallYet

NextCohort ==
    \/ process_demographics(IndexColumn)
    \/ \E c \in EnhancedCalls : process_enhanced(c[1], c[2], c[3])

SpecCohort == InitCohort /\ [][NextCohort]_vars

(***************************************************************************)
(* Configurations: every routine called with valid and invalid registries, *)
(* columns and window options on fixed source files                        *)
(***************************************************************************)
RegistryDuplicated ==
    IndexFrame(<<[PatientID |-> "p1", IndexDate |-> Val(0)],
                 [PatientID |-> "p1", IndexDate |-> Val(2)]>>)
RegistryNoPatientID == [Registry EXCEPT !.columns = {IndexColumn}]
RegistryNoIndexColumn == [Registry EXCEPT !.columns = {"PatientID"}]

ConfigRegistries == {Registry, RegistryDuplicated, RegistryNoPatientID, RegistryNoIndexColumn}

\* The configured column, a column index_date_df does not have, the empty string.
ConfigColumns == {IndexColumn, "OtherDate", ""}

\* An int, a negative int, the float 5.5, None.
ConfigOptions == {IntArg(5), IntArg(-1), FloatArg(5), NoneArg}

\* None, a list, a tuple.
ConfigIds == {NoIds, IdList({"p1"}), [kind |-> "tuple", ids |-> {"p1"}]}

InitConfig ==
    /\ index_date_df \in ConfigRegistries
    /\ ecog_csv = <<EcogRow("p1", Val(0), Val(1)), EcogRow("p1", Val(-5), Val(2))>>
    /\ biomarkers_csv = <<BiomarkerRow("p1", "BRCA", "No BRCA mutation", Val(0), NA)>>
    /\ demographics_csv = <<DemographicsRow("p1", "NY"), DemographicsRow("p2", "PR")>>
    /\ enhanced_csv = <<EnhancedRow("p1", Val(0), Val(60), Val(10), Val(20))>>
    /\ NoCallYet

NextConfig ==
    \/ \E col \in ConfigColumns, before, after, further \in ConfigOptions :
          process_ecog(col, before, after, further)
    \/ \E col \in ConfigColumns, before, after \in ConfigOptions :
          process_biomarkers(col, before, after)
    \/ \E col \in ConfigColumns : process_demographics(col)
    \/ \E col \in ConfigColumns \cup {DefaultIndexColumn}, ids \in ConfigIds, with_idf \in BOOLEAN :
          process_enhanced(col, ids, with_idf)

SpecConfig == InitConfig /\ [][NextConfig]_vars


(***************************************************************************)
(* process_enhanced alone: rows that meet or miss each PSA precondition    *)
(***************************************************************************)
\* p1 with rising, falling and equal PSA over 60 days, 30 days only, no
\* diagnosis date, no PSA at diagnosis, PSA 0 at metastatic diagnosis.
EnhancedPsaRows ==
    {EnhancedRow("p1", Val(0), Val(60), Val(10), Val(20)),
     EnhancedRow("p1", Val(0), Val(60), Val(20), Val(10)),
     EnhancedRow("p1", Val(0), Val(60), Val(10), Val(10)),
     EnhancedRow("p1", Val(0), Val(30), Val(10), Val(20)),
     EnhancedRow("p1", NA, Val(60), Val(10), Val(20)),
     EnhancedRow("p1", Val(0), Val(60), NA, Val(20)),
     EnhancedRow("p1", Val(0), Val(60), Val(10), Val(0)),
     EnhancedRow("p2", Val(0), Val(60), Val(10), Val(20)),
     EnhancedRow("px", Val(0), Val(60), Val(10), Val(20))}

InitEnhanced ==
    /\ index_date_df = Registry
    /\ ecog_csv = <<>>
    /\ biomarkers_csv = <<>>
    /\ demographics_csv = <<>>
    /\ enhanced_csv \in SeqsUpTo(EnhancedPsaRows, MaxEvents)
    /\ NoCallYet

NextEnhanced == \E c \in EnhancedCalls : process_enhanced(c[1], c[2], c[3])

SpecEnhanced == InitEnhanced /\ [][NextEnhanced]_vars


(***************************************************************************)
(* Recoding: stage codes and states that are or are not keys of the maps   *)
(***************************************************************************)
StageRow(p, group, t, n, m, gleason) ==
    [EnhancedRow(p, Val(0), Val(60), Val(10), Val(20))
        EXCEPT !.GroupStage = group, !.TStage = t, !.NStage = n, !.MStage = m,
               !.GleasonScore = gleason]

\* Keys of the maps, and for each column a code that is not a key ("IVC",
\* "T5", "N2", "MX", "6") or a missing code.
StageRows ==
    {StageRow("p1", "IVA", "T0", "NX", "M1a", "9"),
     StageRow("p1", "Unknown / Not documented", "TX", "N0", "M0", "Unknown / Not documented"),
     StageRow("p1", "IVC", "T4", "N1", "M1", "10"),
     StageRow("p1", NaN, "T4", "N1", "M1", "10"),
     StageRow("p1", "IV", "T5", "N1", "M1", "10"),
     StageRow("p1", "IV", "T4", "N2", "M1", "10"),
     StageRow("p1", "IV", "T4", "N1", "MX", "10"),
     StageRow("p1", "IV", "T4", "N1", "M1", "6"),
     StageRow("px", "IV", "T4", "N1", "M1", "10")}

\* States of one region, a state of another, Puerto Rico, a code that is not
\* a key, a missing state.
StateRows ==
    {DemographicsRow("p1", st) : st \in {"NY", "NJ", "CA", "PR", "ZZ", NaN}}
    \cup {DemographicsRow("p2", "NY"), DemographicsRow("px", "ZZ")}

InitRecode ==
    /\ index_date_df = Registry
    /\ ecog_csv = <<>>
    /\ biomarkers_csv = <<>>
    /\ \/ demographics_csv \in SeqsUpTo(StateRows, MaxEvents) /\ enhanced_csv = <<>>
       \/ demographics_csv = <<>> /\ enhanced_csv \in SeqsUpTo(StageRows, MaxEvents)
    /\ NoCallYet

NextRecode ==
    \/ process_demographics(IndexColumn)
    \/ \E c \in EnhancedCalls : process_enhanced(c[1], c[2], c[3])

SpecRecode == InitRecode /\ [][NextRecode]_vars


(***************************************************************************)
(* process_enhanced with an index_date_df: custom and default column       *)
(***************************************************************************)
\* The registry with its index dates in a column named 'MetDiagnosisDate'.
RegistryMet == [Registry EXCEPT !.columns = {"PatientID", DefaultIndexColumn}]

RegistryCalls ==
    {<<col, ids>> : col \in {IndexColumn, DefaultIndexColumn},
                    ids \in {NoIds, IdList({"p1"}), IdList({"p1", "px"})}}

InitRegistry ==
    /\ index_date_df \in {Registry, RegistryMet}
    /\ ecog_csv = <<>>
    /\ biomarkers_csv = <<>>
    /\ demographics_csv = <<>>
    /\ enhanced_csv \in SeqsUpTo({EnhancedRow(p, Val(0), Val(60), Val(10), Val(20)) :
                                     p \in {"p1", "p2", "px"}}, MaxEvents)
    /\ NoCallYet

NextRegistry == \E c \in RegistryCalls : process_enhanced(c[1], c[2], TRUE)

SpecRegistry == InitRegistry /\ [][NextRegistry]_vars


(***************************************************************************)
(* process_enhanced alone: castrate-resistance dates around the index date *)
(***************************************************************************)
CrpcRow(p, diagnosis, crpc) ==
    [EnhancedRow(p, diagnosis, Val(60), Val(10), Val(20)) EXCEPT !.CRPCDate = crpc]

\* p1 (index date 0, metastatic diagnosis on day 60) with no CRPCDate and
\* with one before both dates, on the index date, on the metastatic
\* diagnosis date and after both; p1 without a diagnosis date; p2 with
\* CRPCDate on its index date; px.
CrpcRows ==
    {CrpcRow("p1", Val(-10), crpc) : crpc \in {NA, Val(-3), Val(0), Val(60), Val(90)}}
        \cup {CrpcRow("p1", NA, Val(-3)),
              CrpcRow("p2", Val(-10), Val(2)),
              CrpcRow("px", Val(-10), Val(-3))}

InitCrpc ==
    /\ index_date_df = Registry
    /\ ecog_csv = <<>>
    /\ biomarkers_csv = <<>>
    /\ demographics_csv = <<>>
    /\ enhanced_csv \in SeqsUpTo(CrpcRows, MaxEvents)
    /\ NoCallYet

NextCrpc == \E c \in EnhancedCalls : process_enhanced(c[1], c[2], c[3])

SpecCrpc == InitCrpc /\ [][NextCrpc]_vars


(***************************************************************************)
(* The windowed routines on events without a date.  Both source files hold *)
(* events, one of them varies; the routines are called one after another   *)
(* on the same processor, so both stored frames can hold a table.          *)
(***************************************************************************)
\* p1 and p2 with a dateless event (with and without a value) next to dated
\* ones.
EcogDateRows ==
    {EcogRow("p1", NA, Val(2)), EcogRow("p1", NA, NA), EcogRow("p1", Val(-5), Val(1)),
     EcogRow("p1", Val(0), Val(2)), EcogRow("p2", NA, Val(1)), EcogRow("p2", Val(0), Val(1))}

EcogDateFile == <<EcogRow("p1", NA, Val(2)), EcogRow("p1", Val(0), Val(1))>>

\* p1 without a ResultDate and with no, an in-window and a late
\* SpecimenReceivedDate; p1 with a ResultDate only; p1 with a late ResultDate
\* and an in-window SpecimenReceivedDate; p2 placed by its specimen date.
BiomarkerDateRows ==
    {BiomarkerRow("p1", "BRCA", "BRCA1 mutation identified", NA, NA),
     BiomarkerRow("p1", "BRCA", "BRCA1 mutation identified", NA, Val(0)),
     BiomarkerRow("p1", "BRCA", "BRCA1 mutation identified", NA, Val(15)),
     BiomarkerRow("p1", "BRCA", "No BRCA mutation", Val(0), NA),
     BiomarkerRow("p1", "BRCA", "BRCA1 mutation identified", Val(15), Val(0)),
     BiomarkerRow("p2", "BRCA", "No BRCA mutation", NA, Val(2))}

BiomarkerDateFile ==
    <<BiomarkerRow("p1", "BRCA", "BRCA1 mutation identified", NA, NA),
      BiomarkerRow("p1", "BRCA", "No BRCA mutation", NA, Val(0))>>

InitDates ==
    /\ index_date_df = Registry
    /\ \/ ecog_csv \in SeqsUpTo(EcogDateRows, MaxEvents) /\ biomarkers_csv = BiomarkerDateFile
       \/ ecog_csv = EcogDateFile /\ biomarkers_csv \in SeqsUpTo(BiomarkerDateRows, MaxEvents)
    /\ demographics_csv = <<>>
    /\ enhanced_csv = <<>>
    /\ NoCallYet

NextDates == NextEcog \/ NextBiomarkers

SpecDates == InitDates /\ [][NextDates]_vars


(***************************************************************************)
(* process_ecog alone: values on and off the ECOG scale 0..4               *)
(***************************************************************************)
\* p1 on its index date with a value below, on and above the scale and
\* without a value; p1 on other dates with values on the scale and above it;
\* p2 with a value above the scale only.
EcogScaleRows ==
    {EcogRow("p1", Val(0), v) : v \in {Val(-1), Val(2), Val(5), NA}}
    \cup {EcogRow("p1", Val(2), Val(1)), EcogRow("p1", Val(-5), Val(0)),
          EcogRow("p1", Val(-5), Val(5)), EcogRow("p2", Val(2), Val(5))}

InitScale ==
    /\ index_date_df = Registry
    /\ ecog_csv \in SeqsUpTo(EcogScaleRows, MaxEvents)
    /\ biomarkers_csv = <<>>
    /\ demographics_csv = <<>>
    /\ enhanced_csv = <<>>
    /\ NoCallYet

NextScale ==
    \E w \in EcogWindows :
        process_ecog(IndexColumn, IntArg(w[1]), IntArg(w[2]), IntArg(w[3]))

SpecScale == InitScale /\ [][NextScale]_vars


(***************************************************************************)
(* Properties.  The operators of this part restate what the windows and    *)
(* the reductions are meant to be from the source files and the arguments  *)
(* of the call alone; they use none of the operators of the routines.      *)
(***************************************************************************)
Returned(routine) == call.routine = routine /\ ret.kind = "table"

RegistryIds == {index_date_df.rows[i].PatientID : i \in DOMAIN index_date_df.rows}

IndexDateOf(p) ==
    LET i == CHOOSE j \in DOMAIN index_date_df.rows : index_date_df.rows[j].PatientID = p
    IN index_date_df.rows[i].IndexDate

\* The rows of the returned table that belong to patient p.
RowsOf(p) == {i \in DOMAIN ret.rows : ret.rows[i].PatientID = p}

\* offset = event date - index date lies in [-before, after]; before may be None.
OffsetInWindow(date, p, before, after) ==
    /\ date # NA
    /\ IndexDateOf(p) # NA
    /\ Get(date) - Get(IndexDateOf(p)) <= after.val
    /\ before.kind = "none" \/ Get(date) - Get(IndexDateOf(p)) >= -before.val

OffsetIs(date, p, n) ==
    date # NA /\ IndexDateOf(p) # NA /\ Get(date) - Get(IndexDateOf(p)) = n

\* The date that places a biomarker event: ResultDate, else SpecimenReceivedDate.
BiomarkerDate(r) == IF r.ResultDate # NA THEN r.ResultDate ELSE r.SpecimenReceivedDate

\* The places in the file of a registry patient's events inside a window.
EcogEventsIn(p, before, after) ==
    {i \in DOMAIN ecog_csv :
        ecog_csv[i].PatientID = p /\ OffsetInWindow(ecog_csv[i].EcogDate, p, before, after)}

BiomarkerEventsIn(p, before, after) ==
    {i \in DOMAIN biomarkers_csv :
        biomarkers_csv[i].PatientID = p
        /\ OffsetInWindow(BiomarkerDate(biomarkers_csv[i]), p, before, after)}

Places(df) == {df[i].src : i \in DOMAIN df}

\* C1: whenever process_biomarkers or process_ecog returns a table, the table
\* has exactly one row for every PatientID of index_date_df and no row for any
\* other patient.
C1_OneRowPerRegistryPatient ==
    (Returned("process_biomarkers") \/ Returned("process_ecog")) =>
        /\ \A i \in DOMAIN ret.rows : ret.rows[i].PatientID \in RegistryIds
        /\ \A p \in RegistryIds : Cardinality(RowsOf(p)) = 1

\* C1 witness: a table from an ECOG file that holds an event of a patient
\* outside the registry, several events of one registry patient and none of
\* another registry patient.
C1_Witness ==
    /\ Returned("process_ecog")
    /\ \E i \in DOMAIN ecog_csv : ecog_csv[i].PatientID \notin RegistryIds
    /\ \E p \in RegistryIds : Cardinality({i \in DOMAIN ecog_csv : ecog_csv[i].PatientID = p}) >= 2
    /\ \E p \in RegistryIds : \A i \in DOMAIN ecog_csv : ecog_csv[i].PatientID # p

\* C3: a registry patient with no event in the window has a missing value:
\* BRCA_status in process_biomarkers, ecog_index for the window
\* [-days_before, days_after] and ecog_newly_gte2 for the window
\* [-days_before_further, days_after] in process_ecog.
C3_NoEventMeansMissing ==
    /\ Returned("process_biomarkers") =>
          \A p \in RegistryIds :
              BiomarkerEventsIn(p, call.days_before, call.days_after) = {} =>
                  \A i \in RowsOf(p) : ret.rows[i].BRCA_status = NaN
    /\ Returned("process_ecog") =>
          \A p \in RegistryIds :
              /\ EcogEventsIn(p, call.days_before, call.days_after) = {} =>
                    \A i \in RowsOf(p) : ret.rows[i].ecog_index = NA
              /\ EcogEventsIn(p, call.days_before_further, call.days_after) = {} =>
                    \A i \in RowsOf(p) : ret.rows[i].ecog_newly_gte2 = NA

\* C3 witness: a patient whose events all lie outside the closer window and
\* one of them inside the wider window: ecog_index is missing, the flag is not.
C3_Witness ==
    /\ Returned("process_ecog")
    /\ \E p \in RegistryIds :
          /\ EcogEventsIn(p, call.days_before, call.days_after) = {}
          /\ EcogEventsIn(p, call.days_before_further, call.days_after) # {}
          /\ \E i \in RowsOf(p) :
                ret.rows[i].ecog_index = NA /\ ret.rows[i].ecog_newly_gte2 # NA

\* C4: the rows kept by the window filter are exactly the events of registry
\* patients with -days_before <= offset <= days_after, and with
\* days_before = None those with offset <= days_after; with (None, 14) offset
\* -400 is kept and +15 dropped, and with days_before = 0 nothing before the
\* index date is kept.
C4_WindowIsInclusive ==
    /\ (call.routine = "process_biomarkers" /\ fileRead) =>
          /\ Places(locals.df_filtered) =
                UNION {BiomarkerEventsIn(p, call.days_before, call.days_after) : p \in RegistryIds}
          /\ (call.days_before = NoneArg /\ call.days_after = IntArg(14)) =>
                \A i \in DOMAIN biomarkers_csv :
                    LET r == biomarkers_csv[i]
                    IN r.PatientID \in RegistryIds =>
                          /\ OffsetIs(BiomarkerDate(r), r.PatientID, -400) => i \in Places(locals.df_filtered)
                          /\ OffsetIs(BiomarkerDate(r), r.PatientID, 15) => i \notin Places(locals.df_filtered)
          /\ call.days_before = IntArg(0) =>
                \A j \in DOMAIN locals.df_filtered :
                    Get(locals.df_filtered[j].ResultDate) >= Get(locals.df_filtered[j].IndexDate)
    /\ (call.routine = "process_ecog" /\ fileRead) =>
          /\ Places(locals.df_closest_window) =
                UNION {EcogEventsIn(p, call.days_before, call.days_after) : p \in RegistryIds}
          /\ Places(locals.df_progression_window) =
                UNION {EcogEventsIn(p, call.days_before_further, call.days_after) : p \in RegistryIds}
          /\ call.days_before = IntArg(0) =>
                \A j \in DOMAIN locals.df_closest_window :
                    Get(locals.df_closest_window[j].EcogDate) >= Get(locals.df_closest_window[j].IndexDate)

\* C4 witness: days_before = None, days_after = 14, one event at offset -400
\* that is kept and one at offset +15 that is dropped.
C4_Witness ==
    /\ call.routine = "process_biomarkers" /\ fileRead
    /\ call.days_before = NoneArg /\ call.days_after = IntArg(14)
    /\ \E i, j \in DOMAIN biomarkers_csv :
          /\ biomarkers_csv[i].PatientID \in RegistryIds
          /\ biomarkers_csv[j].PatientID \in RegistryIds
          /\ OffsetIs(BiomarkerDate(biomarkers_csv[i]), biomarkers_csv[i].PatientID, -400)
          /\ OffsetIs(BiomarkerDate(biomarkers_csv[j]), biomarkers_csv[j].PatientID, 15)
          /\ i \in Places(locals.df_filtered)
          /\ j \notin Places(locals.df_filtered)


(***************************************************************************)
(* The closest ECOG value                                                  *)
(***************************************************************************)
Distance(i, p) == LET d == Get(ecog_csv[i].EcogDate) - Get(IndexDateOf(p))
                  IN IF d < 0 THEN -d ELSE d

\* The events of S that no event of S is closer to the index date than.
Closest(S, p) == {i \in S : \A k \in S : Distance(i, p) <= Distance(k, p)}

Valued(S) == {i \in S : ecog_csv[i].EcogValue # NA}

LargestValue(S) ==
    CHOOSE v \in {Get(ecog_csv[i].EcogValue) : i \in S} :
        \A k \in S : Get(ecog_csv[k].EcogValue) <= v

\* C7 as claimed: for every patient with an in-window event, ecog_index is the
\* value of an in-window event of minimal absolute offset, the largest value
\* among the events tied on that offset. Stated for patients whose in-window
\* scores are all on the ECOG scale 0..4 or missing.
C7_ClosestOfAllEvents ==
    Returned("process_ecog") =>
        \A p \in RegistryIds :
            LET W == EcogEventsIn(p, call.days_before, call.days_after)
                T == Closest(W, p)
            IN (W # {} /\ \A i \in Valued(W) : Get(ecog_csv[i].EcogValue) \in 0..4) =>
                  \A j \in RowsOf(p) :
                      /\ \E i \in T : ecog_csv[i].EcogValue = ret.rows[j].ecog_index
                      /\ \A k \in Valued(T) :
                            /\ ret.rows[j].ecog_index # NA
                            /\ Get(ecog_csv[k].EcogValue) <= Get(ret.rows[j].ecog_index)

\* C7 as amended: in every returned table ecog_index is decided by the
\* in-window events that have a value: among them the minimal absolute offset,
\* among the ones tied on it the largest value; ecog_index is that value when
\* it is one of 0..4 and missing otherwise, and missing when no in-window
\* event has a value.
C7_ClosestOfValuedEvents ==
    Returned("process_ecog") =>
        \A p \in RegistryIds :
            LET V == Valued(EcogEventsIn(p, call.days_before, call.days_after))
            IN \A j \in RowsOf(p) :
                  IF V = {} THEN ret.rows[j].ecog_index = NA
                  ELSE LET best == LargestValue(Closest(V, p))
                       IN ret.rows[j].ecog_index = IF best \in 0..4 THEN Val(best) ELSE NA

\* C7 witness: two valued in-window events tied on the minimal absolute offset
\* with different values, a third one farther away, and the larger of the tied
\* values returned.
C7_Witness ==
    /\ Returned("process_ecog")
    /\ \E p \in RegistryIds :
          LET V == Valued(EcogEventsIn(p, call.days_before, call.days_after))
          IN /\ \E i, k \in Closest(V, p) :
                   Get(ecog_csv[i].EcogValue) < Get(ecog_csv[k].EcogValue)
             /\ V # Closest(V, p)
             /\ \E j \in RowsOf(p) :
                   ret.rows[j].ecog_index = Val(LargestValue(Closest(V, p)))

\* The in-window events of p are exactly three: offsets -5, -5 and +2 with
\* values 1, 2 and 0.
SelectorExample(p) ==
    LET W == EcogEventsIn(p, call.days_before, call.days_after)
    IN /\ Cardinality(W) = 3
       /\ \E a, b, c \in W :
             /\ a # b
             /\ OffsetIs(ecog_csv[a].EcogDate, p, -5) /\ ecog_csv[a].EcogValue = Val(1)
             /\ OffsetIs(ecog_csv[b].EcogDate, p, -5) /\ ecog_csv[b].EcogValue = Val(2)
             /\ OffsetIs(ecog_csv[c].EcogDate, p, 2) /\ ecog_csv[c].EcogValue = Val(0)

\* C8 as claimed: with in-window events at offsets -5, -5, +2 and values
\* 1, 2, 0 the selected value is 2.
C8_ExampleSelectsTwo ==
    Returned("process_ecog") =>
        \A p \in RegistryIds :
            SelectorExample(p) => \A j \in RowsOf(p) : ret.rows[j].ecog_index = Val(2)

\* C8 as amended: with in-window events at offsets -5, -5, +2 and values
\* 1, 2, 0 the selected value is 0, the value of the event at offset +2, which
\* is the closest; it is neither 1 nor 2.
C8_ExampleSelectsZero ==
    Returned("process_ecog") =>
        \A p \in RegistryIds :
            SelectorExample(p) => \A j \in RowsOf(p) : ret.rows[j].ecog_index = Val(0)

\* C8 witness: a returned table for a patient with exactly these three events.
C8_Witness ==
    /\ Returned("process_ecog")
    /\ \E p \in RegistryIds : SelectorExample(p) /\ RowsOf(p) # {}

\* The file with two neighbouring rows exchanged. Every order of a file's rows
\* is reached from any other by such exchanges, and every order of the rows is
\* a file of the specification: a result that no exchange changes, whatever
\* the file, is the same for all orders of the same rows.
Swapped(csv, i) == [csv EXCEPT ![i] = csv[i + 1], ![i + 1] = csv[i]]

Reorderings(csv) == {Swapped(csv, i) : i \in 1..(Len(csv) - 1)}

\* C9: the ecog_index selected for each patient does not depend on the order
\* of the rows of ECOG.csv: the file with any two neighbouring rows exchanged
\* (hence in any order) gives the same ecog_index for every patient, and that
\* value is the one in the returned table.
C9_EcogIndexOrderIndependent ==
    (call.routine = "process_ecog" /\ fileRead) =>
        /\ \A q \in Reorderings(ecog_csv) :
              EcogIndexDf(EcogWindow(EcogMerged(q, index_date_df),
                                     call.days_before, call.days_after))
                  = locals.ecog_index_df
        /\ ret.kind = "table" =>
              \A j \in DOMAIN ret.rows :
                  LET sel == GroupOf(locals.ecog_index_df, ret.rows[j].PatientID)
                  IN ret.rows[j].ecog_index = IF sel = <<>> THEN NA ELSE sel[1].ecog_index

\* C9 witness: a patient with two in-window events tied on the absolute
\* offset, the smaller value first in the file, and the larger value selected.
C9_Witness ==
    /\ Returned("process_ecog")
    /\ \E p \in RegistryIds :
          LET V == Valued(EcogEventsIn(p, call.days_before, call.days_after))
          IN \E i, k \in Closest(V, p) :
                /\ i < k
                /\ Get(ecog_csv[i].EcogValue) < Get(ecog_csv[k].EcogValue)
                /\ \E j \in RowsOf(p) : ret.rows[j].ecog_index = ecog_csv[k].EcogValue


(***************************************************************************)
(* The BRCA status                                                         *)
(***************************************************************************)
\* The places in the file of p's in-window BRCA events, and their labels.
BrcaEventsIn(p) ==
    {i \in BiomarkerEventsIn(p, call.days_before, call.days_after) :
        biomarkers_csv[i].BiomarkerName = "BRCA"}

BrcaLabelsIn(p) == {biomarkers_csv[i].BiomarkerStatus : i \in BrcaEventsIn(p)}

\* C10: for every patient with an in-window BRCA event, BRCA_status is
\* 'positive' if a label of the positive set is among the in-window BRCA
\* labels, else 'negative' if a label of the negative set is, else 'unknown';
\* it is a function of the set of labels, whatever their order and whatever
\* other labels there are.
C10_BrcaStatusBySetMembership ==
    Returned("process_biomarkers") =>
        \A p \in RegistryIds :
            BrcaEventsIn(p) # {} =>
                \A j \in RowsOf(p) :
                    ret.rows[j].BRCA_status =
                        IF BrcaLabelsIn(p) \cap positive_values # {} THEN "positive"
                        ELSE IF BrcaLabelsIn(p) \cap negative_values # {} THEN "negative"
                        ELSE "unknown"

\* C10 witness: a negative label, then a positive label, and a label of
\* neither set, all in the window of one patient, who is 'positive'.
C10_Witness ==
    /\ Returned("process_biomarkers")
    /\ \E p \in RegistryIds :
          /\ \E i, k \in BrcaEventsIn(p) :
                /\ i < k
                /\ biomarkers_csv[i].BiomarkerStatus \in negative_values
                /\ biomarkers_csv[k].BiomarkerStatus \in positive_values
          /\ BrcaLabelsIn(p) \ (positive_values \cup negative_values) # {}
          /\ \E j \in RowsOf(p) : ret.rows[j].BRCA_status = "positive"

\* The number of rows of a file or table that belong to patient p.
CountOf(rows, p) == Cardinality({i \in DOMAIN rows : rows[i].PatientID = p})

\* The source file of the routine that was called.
SourceOf(routine) ==
    CASE routine = "process_demographics" -> demographics_csv
      [] routine = "process_enhanced" -> enhanced_csv
      [] routine = "process_biomarkers" -> biomarkers_csv
      [] OTHER -> ecog_csv

\* process_demographics, or process_enhanced with a custom index_date_df,
\* returned a table.
ReturnedForRegistry ==
    \/ Returned("process_demographics")
    \/ /\ Returned("process_enhanced")
       /\ call.with_index_date_df
       /\ call.index_date_column # "MetDiagnosisDate"

InvalidOption(a) == a.kind = "float" \/ (a.kind = "int" /\ a.val < 0)

\* C5 as stated: a call of process_biomarkers or process_ecog with a negative
\* or non-integer days_before, days_after or (process_ecog)
\* days_before_further raises a validation error and does not read the file.
C5_InvalidWindowOptionIsRejected ==
    (/\ call.routine \in {"process_biomarkers", "process_ecog"}
     /\ \/ InvalidOption(call.days_before)
        \/ InvalidOption(call.days_after)
        \/ call.routine = "process_ecog" /\ InvalidOption(call.days_before_further))
    => (ret.kind = "raised" /\ ~fileRead)

\* What the code does check: an invalid days_before or days_after is rejected
\* before the read in both windowed routines.
InvalidBeforeOrAfterIsRejected ==
    (/\ call.routine \in {"process_biomarkers", "process_ecog"}
     /\ InvalidOption(call.days_before) \/ InvalidOption(call.days_after))
    => (ret.kind = "raised" /\ ~fileRead)

\* A configuration error of the call that was made.
ConfigurationError ==
    \/ /\ call.with_index_date_df
       /\ \/ "PatientID" \notin index_date_df.columns
          \/ call.index_date_column \notin index_date_df.columns
          \/ \E i, j \in DOMAIN index_date_df.rows :
                i # j /\ index_date_df.rows[i].PatientID = index_date_df.rows[j].PatientID
    \/ /\ call.routine = "process_enhanced"
       /\ ~call.with_index_date_df
       /\ call.index_date_column # "MetDiagnosisDate"

\* C6 as stated: a call with a configuration error never reads the source
\* file, in every routine.
C6_ConfigurationErrorIsRejectedBeforeRead ==
    ConfigurationError => ~fileRead

\* What the code does check: an index_date_df that is passed with a duplicate
\* PatientID or without one of its two columns is rejected before the read in
\* every routine.
InvalidRegistryIsRejected ==
    (ConfigurationError /\ call.with_index_date_df) => (ret.kind = "raised" /\ ~fileRead)

(***************************************************************************)
(* The progression flag                                                    *)
(***************************************************************************)
\* The places in the file of p's events inside [-days_before_further, days_after].
ProgressionEventsIn(p) == EcogEventsIn(p, call.days_before_further, call.days_after)

\* The events of S on the latest date of S, and those on a strictly earlier date.
OnLastDate(S) ==
    {i \in S : \A k \in S : Get(ecog_csv[k].EcogDate) <= Get(ecog_csv[i].EcogDate)}
BeforeLastDate(S) == S \ OnLastDate(S)

AtLeastTwo(i) == ecog_csv[i].EcogValue # NA /\ Get(ecog_csv[i].EcogValue) >= 2
ZeroOrOne(i) == ecog_csv[i].EcogValue \in {Val(0), Val(1)}

\* The rule for the flag of a patient whose in-window events are S: 0 or 1; 1
\* only if a last-date value is >= 2 and a value on a strictly earlier date is
\* 0 or 1; 1 whenever every last-date value is >= 2 and a value on a strictly
\* earlier date is 0 or 1.
FlagFollowsRule(flag, S) ==
    /\ flag \in {Val(0), Val(1)}
    /\ flag = Val(1) =>
          /\ \E i \in OnLastDate(S) : AtLeastTwo(i)
          /\ \E i \in BeforeLastDate(S) : ZeroOrOne(i)
    /\ ((\A i \in OnLastDate(S) : AtLeastTwo(i)) /\ (\E i \in BeforeLastDate(S) : ZeroOrOne(i)))
          => flag = Val(1)

\* C11 as stated: in every table of process_ecog, a patient with an event in
\* the [-days_before_further, days_after] window has ecog_newly_gte2 = 1 if
\* the chronologically last in-window value is >= 2 and a value on a strictly
\* earlier date is 0 or 1, and 0 otherwise.
C11_NewlyGte2Rule ==
    Returned("process_ecog") =>
        \A p \in RegistryIds :
            ProgressionEventsIn(p) # {} =>
                \A j \in RowsOf(p) :
                    FlagFollowsRule(ret.rows[j].ecog_newly_gte2, ProgressionEventsIn(p))

DistinctDates(S) ==
    \A i, k \in S : i # k => ecog_csv[i].EcogDate # ecog_csv[k].EcogDate

\* What the code does compute: the rule holds for every patient whose
\* in-window events are on pairwise different dates.
NewlyGte2RuleOnDistinctDates ==
    Returned("process_ecog") =>
        \A p \in RegistryIds :
            (ProgressionEventsIn(p) # {} /\ DistinctDates(ProgressionEventsIn(p))) =>
                \A j \in RowsOf(p) :
                    FlagFollowsRule(ret.rows[j].ecog_newly_gte2, ProgressionEventsIn(p))

\* The in-window values of p in date order are vals (dates pairwise different).
ValuesInDateOrder(p, vals) ==
    LET S == ProgressionEventsIn(p)
    IN /\ DistinctDates(S)
       /\ Cardinality(S) = Len(vals)
       /\ \E f \in [1..Len(vals) -> S] :
             /\ \A a, b \in 1..Len(vals) :
                   a < b => Get(ecog_csv[f[a]].EcogDate) < Get(ecog_csv[f[b]].EcogDate)
             /\ \A a \in 1..Len(vals) : ecog_csv[f[a]].EcogValue = Val(vals[a])

\* The four examples: [0,1,2] and [2,0,2] give 1, [2,2,2] and [2] give 0.
NewlyGte2Examples ==
    Returned("process_ecog") =>
        \A p \in RegistryIds : \A j \in RowsOf(p) :
            /\ (ValuesInDateOrder(p, <<0, 1, 2>>) \/ ValuesInDateOrder(p, <<2, 0, 2>>))
                  => ret.rows[j].ecog_newly_gte2 = Val(1)
            /\ (ValuesInDateOrder(p, <<2, 2, 2>>) \/ ValuesInDateOrder(p, <<2>>))
                  => ret.rows[j].ecog_newly_gte2 = Val(0)

\* C20 as stated: the ecog_newly_gte2 of every patient does not depend on the
\* order of the rows of ECOG.csv: whenever the call returns a table and the
\* call on the file with two neighbouring rows exchanged returns one too, the
\* two tables give every patient the same flag.
C20_NewlyGte2OrderIndependent ==
    Returned("process_ecog") =>
        \A q \in Reorderings(ecog_csv) :
            LET other == EcogCall(q, index_date_df, call.index_date_column, call.days_before,
                                  call.days_after, call.days_before_further).ret
            IN other.kind = "table" =>
                  \A j \in DOMAIN ret.rows :
                      other.rows[j].ecog_newly_gte2 = ret.rows[j].ecog_newly_gte2

(***************************************************************************)
(* The PSA metrics                                                         *)
(***************************************************************************)
\* The row of Enhanced_MetProstate.csv an output row of process_enhanced was read from.
SourceRow(j) == enhanced_csv[ret.rows[j].src]

\* Diagnosis date present, more than 30 days to the metastatic diagnosis, both
\* PSA values present and strictly positive.
VelocityPreconditions(s) ==
    /\ s.DiagnosisDate # NA
    /\ s.MetDiagnosisDate # NA
    /\ Get(s.MetDiagnosisDate) - Get(s.DiagnosisDate) > 30
    /\ s.PSADiagnosis # NA /\ Get(s.PSADiagnosis) > 0
    /\ s.PSAMetDiagnosis # NA /\ Get(s.PSAMetDiagnosis) > 0

\* v = (PSAMetDiagnosis - PSADiagnosis) / (days / 30), v being the fraction num / den.
IsVelocityOf(v, s) ==
    v.num * (Get(s.MetDiagnosisDate) - Get(s.DiagnosisDate))
        = 30 * (Get(s.PSAMetDiagnosis) - Get(s.PSADiagnosis)) * v.den

\* The velocity rule on output row j.
VelocityRule(j) ==
    LET v == ret.rows[j].psa_velocity
        s == SourceRow(j)
    IN /\ v # NA <=> VelocityPreconditions(s)
       /\ VelocityPreconditions(s) => IsVelocityOf(Get(v), s)
       /\ s = EnhancedRow(s.PatientID, Val(0), Val(60), Val(10), Val(20)) =>
             (v # NA /\ Get(v).num = 5 * Get(v).den)

\* C12 as stated: in every table of process_enhanced a row has a psa_velocity
\* exactly when its diagnosis date is present, the days to the metastatic
\* diagnosis exceed 30 and both PSA values are present and positive; the
\* value is (PSAMetDiagnosis - PSADiagnosis) / (days / 30), 5 for 10 then 20
\* over 60 days, and missing at exactly 30 days.
C12_PsaVelocityRule ==
    Returned("process_enhanced") => \A j \in DOMAIN ret.rows : VelocityRule(j)

SingleSourceRow(j) == CountOf(enhanced_csv, ret.rows[j].PatientID) = 1

\* What the code does compute: the velocity rule holds on every row of a
\* patient who has one row in the file.
PsaVelocityRuleOnSingleRows ==
    Returned("process_enhanced") =>
        \A j \in DOMAIN ret.rows : SingleSourceRow(j) => VelocityRule(j)

\* The doubling rule on output row j: psa_doubling exactly under the velocity
\* preconditions with rising PSA; never without a psa_velocity.
DoublingRule(j) ==
    LET d == ret.rows[j].psa_doubling
        s == SourceRow(j)
    IN /\ d # NA <=> (VelocityPreconditions(s)
                         /\ Get(s.PSAMetDiagnosis) > Get(s.PSADiagnosis))
       /\ d # NA => ret.rows[j].psa_velocity # NA
       /\ (VelocityPreconditions(s) /\ Get(s.PSAMetDiagnosis) <= Get(s.PSADiagnosis)) =>
             (ret.rows[j].psa_velocity # NA /\ d = NA)

\* C13 as stated: in every table of process_enhanced a row has a psa_doubling
\* exactly when the velocity preconditions hold and PSAMetDiagnosis >
\* PSADiagnosis; a row with a psa_doubling has a psa_velocity, and a row with
\* equal or falling PSA that meets the other preconditions has a psa_velocity
\* and no psa_doubling.
C13_PsaDoublingRule ==
    Returned("process_enhanced") => \A j \in DOMAIN ret.rows : DoublingRule(j)

\* What the code does compute: the doubling rule holds on every row of a
\* patient who has one row in the file.
PsaDoublingRuleOnSingleRows ==
    Returned("process_enhanced") =>
        \A j \in DOMAIN ret.rows : SingleSourceRow(j) => DoublingRule(j)

\* Holds on every row: no psa_doubling without a psa_velocity.
DoublingImpliesVelocity ==
    Returned("process_enhanced") =>
        \A j \in DOMAIN ret.rows :
            ret.rows[j].psa_doubling # NA => ret.rows[j].psa_velocity # NA

(***************************************************************************)
(* The registry and the stored frames across calls                         *)
(***************************************************************************)
\* C14 as stated: no call changes the caller's index_date_df: rows, columns,
\* values and value types are after every call what they were before it.
C14_RegistryNeverMutated == [][index_date_df' = index_date_df]_vars

\* What the code does keep: the rows and the columns of index_date_df; a call
\* changes nothing but the type of the index-date column, and only a call
\* that passed validation changes that.
RegistryRowsAndColumnsKept ==
    [][/\ index_date_df'.rows = index_date_df.rows
       /\ index_date_df'.columns = index_date_df.columns
       /\ ret'.kind = "raised" => index_date_df' = index_date_df]_vars

\* The frame the processor stores for each routine.
StoredFrames ==
    [process_ecog |-> ecog_df, process_biomarkers |-> biomarkers_df,
     process_demographics |-> demographics_df, process_enhanced |-> enhanced_df]

Routines == {"process_ecog", "process_biomarkers", "process_demographics", "process_enhanced"}

\* C15: a call that fails after its file was read returns None and does not
\* raise; a call that does not return a table leaves all four stored frames
\* as they were; a call that returns a table stores it as the frame of its
\* routine and leaves the other three frames as they were (so every stored
\* frame is the result of the most recent successful call of its routine);
\* and no outcome depends on what an earlier call left behind: the stored
\* frames are never read and the conversion of the registry's dates that a
\* failed call may leave changes no result.
C15_FailureIsIsolated ==
    /\ [][/\ fileRead' => ret'.kind \in {"table", "None"}
          /\ ret'.kind # "table" =>
                StoredFrames' = StoredFrames
          /\ ret'.kind = "table" =>
                /\ StoredFrames'[call'.routine] = ret'
                /\ \A f \in Routines \ {call'.routine} : StoredFrames'[f] = StoredFrames[f]
          /\ ret' = CASE call'.routine = "process_ecog" ->
                            EcogCall(ecog_csv, [index_date_df EXCEPT !.dtype = "object"],
                                     call'.index_date_column, call'.days_before,
                                     call'.days_after, call'.days_before_further).ret
                      [] call'.routine = "process_biomarkers" ->
                            BiomarkersCall(biomarkers_csv, [index_date_df EXCEPT !.dtype = "object"],
                                           call'.index_date_column, call'.days_before,
                                           call'.days_after).ret
                      [] call'.routine = "process_demographics" ->
                            DemographicsCall(demographics_csv,
                                             [index_date_df EXCEPT !.dtype = "object"],
                                             call'.index_date_column).ret
                      [] OTHER ->
                            EnhancedCall(enhanced_csv, [index_date_df EXCEPT !.dtype = "object"],
                                         call'.index_date_column, call'.patient_ids,
                                         call'.with_index_date_df).ret]_vars

\* C15 witness: process_ecog has failed after reading its file while the
\* processor holds the tables of earlier successful process_ecog and
\* process_biomarkers calls.
C15_Witness ==
    /\ call.routine = "process_ecog"
    /\ fileRead
    /\ ret.kind = "None"
    /\ ecog_df.kind = "table"
    /\ biomarkers_df.kind = "table"

(***************************************************************************)
(* Gaps in the data                                                        *)
(***************************************************************************)
\* The file without its i-th row.
WithoutRow(csv, i) == [k \in 1..(Len(csv) - 1) |-> IF k < i THEN csv[k] ELSE csv[k + 1]]

\* The table process_ecog returns for the file q and the arguments of the call.
EcogResultOn(q) ==
    EcogCall(q, index_date_df, call.index_date_column, call.days_before,
             call.days_after, call.days_before_further).ret

\* Rows with a missing EcogValue leave the other patients' rows as they are
\* without them.
OtherPatientsUnaffected ==
    \A i \in DOMAIN ecog_csv :
        (ecog_csv[i].EcogValue = NA /\ ret.kind = "table"
            /\ EcogResultOn(WithoutRow(ecog_csv, i)).kind = "table") =>
            \A j \in DOMAIN ret.rows :
                ret.rows[j].PatientID # ecog_csv[i].PatientID =>
                    ret.rows[j] = EcogResultOn(WithoutRow(ecog_csv, i)).rows[j]

\* C16 as stated, for process_ecog: a call on valid arguments whose file was
\* read returns a table, also when the file holds events with a missing
\* EcogValue, and such an event changes no other patient's row.
C16_GapNeverAborts ==
    (call.routine = "process_ecog" /\ fileRead) =>
        (ret.kind = "table" /\ OtherPatientsUnaffected)

\* What the code does: the call returns a table exactly when no registry
\* patient's last event (by date, then by place in the file) in the
\* [-days_before_further, days_after] window has a missing EcogValue; a
\* missing value anywhere else changes no other patient's row.
LastInWindow(p) ==
    CHOOSE i \in ProgressionEventsIn(p) :
        \A k \in ProgressionEventsIn(p) \ {i} :
            \/ Get(ecog_csv[k].EcogDate) < Get(ecog_csv[i].EcogDate)
            \/ ecog_csv[k].EcogDate = ecog_csv[i].EcogDate /\ k < i

EcogAbortsOnMissingLastValue ==
    (call.routine = "process_ecog" /\ fileRead) =>
        /\ ret.kind = "None" <=>
              \E p \in RegistryIds :
                  ProgressionEventsIn(p) # {} /\ ecog_csv[LastInWindow(p)].EcogValue = NA
        /\ ret.kind \in {"None", "table"}
        /\ OtherPatientsUnaffected

\* process_biomarkers and process_enhanced return a table whatever is missing
\* in their files.
OtherRoutinesNeverAbort ==
    (call.routine \in {"process_biomarkers", "process_enhanced"} /\ fileRead) =>
        ret.kind = "table"

(***************************************************************************)
(* The recoding maps                                                       *)
(***************************************************************************)
\* The keys of the five stage maps and of the region map.
GroupStageKeys ==
    {"IV", "IVA", "IVB", "III", "IIIA", "IIIB", "IIIC", "II", "IIA", "IIB", "IIC", "I",
     "Unknown / Not documented"}
TStageKeys ==
    {"T4", "T3", "T3a", "T3b", "T2", "T2a", "T2b", "T2c", "T1", "T1a", "T1b", "T1c", "T0", "TX",
     "Unknown / Not documented"}
NStageKeys == {"N1", "N0", "NX", "Unknown / Not documented"}
MStageKeys == {"M1", "M1a", "M1b", "M1c", "M0", "Unknown / Not documented"}
GleasonKeys ==
    {"10", "9", "8", "4 + 3 = 7", "7 (when breakdown not available)", "3 + 4 = 7",
     "Less than or equal to 6", "Unknown / Not documented"}
StateKeys == Northeast \cup Midwest \cup South \cup West \cup {"PR"}

\* A code that is present and is not a key.
Unmapped(code, keys) == code # NaN /\ code \notin keys

\* The row of Demographics.csv an output row of process_demographics was read from.
DemographicsSourceRow(j) == demographics_csv[locals.df[j].src]

\* C17 as stated: in every table of process_enhanced a stage code that is
\* not a key of its map gives 'unknown' in the _mod column, and in every
\* table of process_demographics a State that is missing or not a key of the
\* region map gives region 'unknown'.
C17_UnmappedCodeIsUnknown ==
    /\ Returned("process_enhanced") =>
          \A j \in DOMAIN ret.rows :
              LET s == SourceRow(j)
                  r == ret.rows[j]
              IN /\ Unmapped(s.GroupStage, GroupStageKeys) => r.GroupStage_mod = "unknown"
                 /\ Unmapped(s.TStage, TStageKeys) => r.TStage_mod = "unknown"
                 /\ Unmapped(s.NStage, NStageKeys) => r.NStage_mod = "unknown"
                 /\ Unmapped(s.MStage, MStageKeys) => r.MStage_mod = "unknown"
                 /\ Unmapped(s.GleasonScore, GleasonKeys) => r.GleasonScore_mod = "unknown"
    /\ Returned("process_demographics") =>
          \A j \in DOMAIN ret.rows :
              (DemographicsSourceRow(j).State = NaN
                  \/ Unmapped(DemographicsSourceRow(j).State, StateKeys))
                  => ret.rows[j].region = "unknown"

\* What the code does: a stage code that is missing or not a key gives a
\* missing _mod value, never 'unknown'; the region part of C17 holds.
UnmappedStageIsMissing ==
    Returned("process_enhanced") =>
        \A j \in DOMAIN ret.rows :
            LET s == SourceRow(j)
                r == ret.rows[j]
            IN /\ s.GroupStage \notin GroupStageKeys => r.GroupStage_mod = NaN
               /\ s.TStage \notin TStageKeys => r.TStage_mod = NaN
               /\ s.NStage \notin NStageKeys => r.NStage_mod = NaN
               /\ s.MStage \notin MStageKeys => r.MStage_mod = NaN
               /\ s.GleasonScore \notin GleasonKeys => r.GleasonScore_mod = NaN

UnmappedStateIsUnknown ==
    Returned("process_demographics") =>
        \A j \in DOMAIN ret.rows :
            DemographicsSourceRow(j).State \notin StateKeys => ret.rows[j].region = "unknown"

(***************************************************************************)
(* The cohort of process_enhanced                                          *)
(***************************************************************************)
\* C18 as stated: every table process_enhanced returns when it is given an
\* index_date_df holds rows of PatientIDs of index_date_df only, whatever
\* index_date_column and patient_ids are.
C18_OnlyRegistryPatients ==
    (Returned("process_enhanced") /\ call.with_index_date_df) =>
        \A j \in DOMAIN ret.rows : ret.rows[j].PatientID \in RegistryIds

\* What the code does: with a custom index_date_column the rows are those of
\* the registry's patients (patient_ids is not looked at); with the default
\* column the rows are those of patient_ids, or all rows when patient_ids is
\* None, and index_date_df is not looked at.
EnhancedCohortByCase ==
    (Returned("process_enhanced") /\ call.with_index_date_df) =>
        {ret.rows[j].src : j \in DOMAIN ret.rows} =
            {i \in DOMAIN enhanced_csv :
                IF call.index_date_column # "MetDiagnosisDate"
                    THEN enhanced_csv[i].PatientID \in RegistryIds
                    ELSE call.patient_ids.kind = "none"
                            \/ enhanced_csv[i].PatientID \in call.patient_ids.ids}

(***************************************************************************)
(* IsCRPC and days_diagnosis_to_crpc                                       *)
(***************************************************************************)
\* The date output row j is measured against: the row's MetDiagnosisDate
\* under the default index_date_column, the registry's date of the row's
\* patient otherwise.
CrpcIndexDate(j) ==
    IF call.index_date_column = "MetDiagnosisDate"
        THEN SourceRow(j).MetDiagnosisDate
        ELSE IndexDateOf(ret.rows[j].PatientID)

EarlierThan(a, b) == a # NA /\ b # NA /\ Get(a) < Get(b)

\* C19 as stated: in every table process_enhanced returns, IsCRPC is 1 exactly
\* when the row's CRPCDate is earlier than the index date and 0 otherwise
\* (so also 0 when CRPCDate equals the index date or is missing), and
\* days_diagnosis_to_crpc is non-missing only on rows with IsCRPC = 1.
C19_IsCrpcWhenEarlier ==
    Returned("process_enhanced") =>
        \A j \in DOMAIN ret.rows :
            /\ ret.rows[j].IsCRPC =
                  (IF EarlierThan(SourceRow(j).CRPCDate, CrpcIndexDate(j)) THEN 1 ELSE 0)
            /\ ret.rows[j].days_diagnosis_to_crpc # NA => ret.rows[j].IsCRPC = 1

\* What the code does: IsCRPC is 1 exactly when CRPCDate is on or before the
\* index date, 0 otherwise and when CRPCDate is missing, and
\* days_diagnosis_to_crpc is CRPCDate - DiagnosisDate on rows with IsCRPC = 1
\* (missing without a DiagnosisDate) and missing on every other row.
IsCrpcWhenOnOrBefore ==
    Returned("process_enhanced") =>
        \A j \in DOMAIN ret.rows :
            LET crpc == SourceRow(j).CRPCDate
                is == crpc # NA /\ Get(crpc) <= Get(CrpcIndexDate(j))
            IN /\ ret.rows[j].IsCRPC = (IF is THEN 1 ELSE 0)
               /\ ret.rows[j].days_diagnosis_to_crpc =
                     (IF is /\ SourceRow(j).DiagnosisDate # NA
                         THEN Val(Get(crpc) - Get(SourceRow(j).DiagnosisDate))
                         ELSE NA)

\* The part of the rule the code keeps: days_diagnosis_to_crpc is non-missing
\* only on rows with IsCRPC = 1.
DaysToCrpcOnlyWhenCrpc ==
    Returned("process_enhanced") =>
        \A j \in DOMAIN ret.rows :
            ret.rows[j].days_diagnosis_to_crpc # NA => ret.rows[j].IsCRPC = 1

(***************************************************************************)
(* Events without a date                                                   *)
(***************************************************************************)
\* The events of the source files that have a date to place them by.
DatedEcog == SelectSeq(ecog_csv, LAMBDA r : r.EcogDate # NA)
DatedBiomarkers == SelectSeq(biomarkers_csv, LAMBDA r : BiomarkerDate(r) # NA)

\* The outcome of process_biomarkers for the file q and the arguments of the call.
BiomarkersResultOn(q) ==
    BiomarkersCall(q, index_date_df, call.index_date_column, call.days_before,
                   call.days_after).ret

\* Every registry patient with an event in the file has a row in the table.
PatientsKeepTheirRow(csv) ==
    \A i \in DOMAIN csv : csv[i].PatientID \in RegistryIds => RowsOf(csv[i].PatientID) # {}

\* C21: an event without a date leaves the window, not its patient.  In
\* process_ecog no event with a missing EcogDate is in the closest or the
\* progression window; in process_biomarkers an event with a missing
\* ResultDate is in the window exactly when its SpecimenReceivedDate is
\* present and inside the window.  In both routines the outcome is the one the
\* call has on the file without its dateless events, so the other events are
\* reduced as before, and every registry patient of the file has its row in
\* the returned table.
C21_MissingDateRemovesEventOnly ==
    /\ (call.routine = "process_ecog" /\ fileRead) =>
          /\ \A i \in DOMAIN ecog_csv :
                ecog_csv[i].EcogDate = NA =>
                    /\ i \notin Places(locals.df_closest_window)
                    /\ i \notin Places(locals.df_progression_window)
          /\ ret = EcogResultOn(DatedEcog)
          /\ ret.kind = "table" => PatientsKeepTheirRow(ecog_csv)
    /\ (call.routine = "process_biomarkers" /\ fileRead) =>
          /\ \A i \in DOMAIN biomarkers_csv :
                LET r == biomarkers_csv[i]
                IN (r.ResultDate = NA /\ r.PatientID \in RegistryIds) =>
                      (i \in Places(locals.df_filtered) <=>
                          OffsetInWindow(r.SpecimenReceivedDate, r.PatientID,
                                         call.days_before, call.days_after))
          /\ ret = BiomarkersResultOn(DatedBiomarkers)
          /\ ret.kind = "table" => PatientsKeepTheirRow(biomarkers_csv)

\* C21 witness: process_biomarkers has just returned a table for a file in
\* which p1 has an event without any date and an event without a ResultDate
\* that its SpecimenReceivedDate places in the window, and p1 has a BRCA
\* status; the frame process_ecog stored earlier on the same processor comes
\* from a file in which p1 has a dateless event and a dated one, and holds an
\* ecog_index for p1.
C21_Witness ==
    /\ Returned("process_biomarkers")
    /\ \E i \in DOMAIN biomarkers_csv :
          biomarkers_csv[i].PatientID = "p1" /\ BiomarkerDate(biomarkers_csv[i]) = NA
    /\ \E i \in Places(locals.df_filtered) :
          biomarkers_csv[i].PatientID = "p1" /\ biomarkers_csv[i].ResultDate = NA
    /\ \E j \in RowsOf("p1") : ret.rows[j].BRCA_status # NaN
    /\ ecog_df.kind = "table"
    /\ \E i, k \in DOMAIN ecog_csv :
          /\ ecog_csv[i].PatientID = "p1" /\ ecog_csv[i].EcogDate = NA
          /\ ecog_csv[k].PatientID = "p1" /\ ecog_csv[k].EcogDate # NA
    /\ \E j \in DOMAIN ecog_df.rows :
          ecog_df.rows[j].PatientID = "p1" /\ ecog_df.rows[j].ecog_index # NA

(***************************************************************************)
(* Duplicate PatientIDs in the Enhanced source                             *)
(***************************************************************************)
\* The places of the source rows that pass the cohort filter of the call: the
\* registry's patients under a custom index_date_column, the patients of
\* patient_ids (all patients when it is None) under the default column.
CohortPlaces ==
    {i \in DOMAIN enhanced_csv :
        IF call.index_date_column # "MetDiagnosisDate"
            THEN enhanced_csv[i].PatientID \in RegistryIds
            ELSE call.patient_ids.kind = "none"
                    \/ enhanced_csv[i].PatientID \in call.patient_ids.ids}

\* The output rows that come from the source row at place i.
RowsFrom(i) == {j \in DOMAIN ret.rows : ret.rows[j].src = i}

\* C22 as stated: every table process_enhanced returns has exactly one row
\* for each source row that passes the cohort filter and no other row, also
\* when several rows of one patient qualify for psa_doubling or psa_velocity.
C22_DuplicatesRetainedNotMultiplied ==
    Returned("process_enhanced") =>
        /\ \A j \in DOMAIN ret.rows : ret.rows[j].src \in CohortPlaces
        /\ \A i \in CohortPlaces : Cardinality(RowsFrom(i)) = 1

\* The number of a patient's cohort rows that qualify for psa_velocity and
\* for psa_doubling.
VelocityRowsOf(p) ==
    Cardinality({i \in CohortPlaces :
        enhanced_csv[i].PatientID = p /\ VelocityPreconditions(enhanced_csv[i])})

DoublingRowsOf(p) ==
    Cardinality({i \in CohortPlaces :
        /\ enhanced_csv[i].PatientID = p
        /\ VelocityPreconditions(enhanced_csv[i])
        /\ Get(enhanced_csv[i].PSAMetDiagnosis) > Get(enhanced_csv[i].PSADiagnosis)})

AtLeastOne(n) == IF n = 0 THEN 1 ELSE n

\* What the code does: no source row is dropped and none comes from outside
\* the cohort, but the two merges on PatientID give each source row of a
\* patient one output row for every pair of a doubling row and a velocity row
\* of that patient.
DuplicatesMultipliedByPsaRows ==
    Returned("process_enhanced") =>
        /\ \A j \in DOMAIN ret.rows : ret.rows[j].src \in CohortPlaces
        /\ \A i \in CohortPlaces :
              LET p == enhanced_csv[i].PatientID
              IN Cardinality(RowsFrom(i)) =
                    AtLeastOne(DoublingRowsOf(p)) * AtLeastOne(VelocityRowsOf(p))

\* The stated rule holds on the rows of every patient who has at most one
\* qualifying row.
OneRowPerSourceRowWithoutPsaDuplicates ==
    Returned("process_enhanced") =>
        \A i \in CohortPlaces :
            VelocityRowsOf(enhanced_csv[i].PatientID) <= 1 => Cardinality(RowsFrom(i)) = 1

BelowScaleLosesTheTie ==
    Returned("process_ecog") =>
        \A p \in RegistryIds :
            LET T == Closest(Valued(EcogEventsIn(p, call.days_before, call.days_after)), p)
            IN (/\ \E i \in T : Get(ecog_csv[i].EcogValue) < 0
                /\ \E i \in T : Get(ecog_csv[i].EcogValue) \in 0..4
                /\ \A i \in T : Get(ecog_csv[i].EcogValue) <= 4) =>
                   \A j \in RowsOf(p) : ret.rows[j].ecog_index = Val(LargestValue(T))

C24_MissingOnlyWithoutScaleValue ==
    Returned("process_ecog") =>
        \A p \in RegistryIds :
            LET W == EcogEventsIn(p, call.days_before, call.days_after)
                V == Valued(W)
            IN \A j \in RowsOf(p) :
                  /\ ret.rows[j].ecog_index # NA =>
                        (V # {} /\ ret.rows[j].ecog_index = Val(LargestValue(Closest(V, p))))
                  /\ ret.rows[j].ecog_index = NA =>
                        \A i \in V : Get(ecog_csv[i].EcogValue) \notin 0..4

\* C24 amended: events without a value never win; a non-missing ecog_index is
\* the value of the closest in-window event that has a value (the larger
\* value on a tie), also when a nearer event has no value; ecog_index is
\* missing exactly when no in-window event of the patient has a value or when
\* that winning value lies outside 0..4, whatever the farther events hold.
C24_MissingWithoutWinningScaleValue ==
    Returned("process_ecog") =>
        \A p \in RegistryIds :
            LET W == EcogEventsIn(p, call.days_before, call.days_after)
                V == Valued(W)
            IN \A j \in RowsOf(p) :
                  /\ ret.rows[j].ecog_index # NA =>
                        (V # {} /\ ret.rows[j].ecog_index = Val(LargestValue(Closest(V, p))))
                  /\ ret.rows[j].ecog_index = NA <=>
                        (V = {} \/ LargestValue(Closest(V, p)) \notin 0..4)

\* C24 witness: every nearest in-window event of a patient has no value, a
\* farther in-window event has one, and ecog_index is that farther value.
C24_Witness ==
    /\ Returned("process_ecog")
    /\ \E p \in RegistryIds :
          LET W == EcogEventsIn(p, call.days_before, call.days_after)
              V == Valued(W)
          IN /\ V # {}
             /\ Closest(W, p) \cap V = {}
             /\ \E j \in RowsOf(p) :
                   /\ ret.rows[j].ecog_index # NA
                   /\ ret.rows[j].ecog_index = Val(LargestValue(Closest(V, p)))

=============================================================================
